---- MODULE Spec2Model ----
(***************************************************************************)
(* Model of the ResearchAgent orchestration pipeline:                      *)
(*   ResearchManager.run  ->  PlanningAgent  ->  batched SearchAgent        *)
(*   calls under asyncio.gather  ->  WriterAgent.                           *)
(*                                                                         *)
(* Text is modelled as a sequence of tokens (words, blanks, punctuation,   *)
(* template sentences), so that concatenation, stripping, splitting and    *)
(* containment are computed rather than assumed.  The external             *)
(* capabilities (TextGenerator, SearchProvider, file system) are           *)
(* nondeterministic.  In Spec (a run of the manager) the Planner's and the *)
(* Writer's generator calls choose their answer at the call, while the     *)
(* provider, the summary generator and the search-result store behave one  *)
(* way for the whole run, chosen at the start; in PlannerSpec, DirectSpec  *)
(* and WriterSpec (one agent called alone) every call chooses anew.        *)
(* FollowUpSpec is a call of run_follow_up_research.  Artifact files are   *)
(* named as the code names them, from the sanitized topic or query and the *)
(* clock cut to whole seconds; writing a file replaces its content.        *)
(***************************************************************************)
EXTENDS Integers, Sequences, FiniteSets, TLC

VARIABLES
    phase,          \* position of ResearchManager.run
    topic,          \* the argument of run
    env,            \* behaviour of the external capabilities during the run
    clock,          \* the system clock, in ticks of 1/TicksPerSecond second
    genCalls,       \* history: number of TextGenerator calls made so far
    original,       \* the argument of run_follow_up_research (NoReport in run)
    llm,            \* the generator's scripted answer to the Planner or to
                    \* the Writer's question prompt (Unscripted: any)
    plan,           \* research_plan returned by the Planner (NoPlan before)
    planPath,       \* history: the branch of PlanningAgent.process that returned
    nextIdx,        \* loop variable i of _execute_searches, 1-based
    tasks,          \* the coroutines of the batch handed to asyncio.gather
    results,        \* the list "results" of _execute_searches
    batches,        \* history: sizes of the batches issued so far
    started,        \* history: plan indices whose search has started
    completed,      \* history: plan indices whose search has returned
    plannerCalls,   \* history: arguments of planning_agent.run
    writerCalls,    \* history: arguments of writer_agent.run
    report,         \* value returned by run (NoReport before)
    error,          \* exception propagated out of run ("none" if none)
    searchStore,    \* search-result artifacts written so far
    reportStore,    \* report artifacts written so far
    config,         \* the keyword arguments ResearchManager was constructed with
    use_rag,        \* self.use_rag of the manager
    vectorOps,      \* history: the operations issued on the VectorStore
    outcomes,       \* history: what the external calls of the last
                    \* WriterAgent.process answered (NoOutcomes before)
    runs,           \* history: inputs and outcome of the earlier runs of the manager
    chunking,       \* the frame of RAGProcessor._chunk_document (NoFrame outside)
    active_tasks,   \* ui/app.py: the dict of active tasks, task id -> task
    completed_tasks,\* ui/app.py: the dict of completed tasks
    threads,        \* ui/app.py: position of the background thread of every task
    requests        \* ui/app.py: the status requests and their position

uiVars == <<active_tasks, completed_tasks, threads, requests>>

vars == <<phase, topic, env, config, use_rag, vectorOps, outcomes, runs,
          chunking, uiVars, clock, genCalls, original, llm, plan, planPath,
          nextIdx, tasks, results, batches, started, completed, plannerCalls,
          writerCalls, report, error, searchStore, reportStore>>

(***************************************************************************)
(* Bounds of the model.                                                    *)
(***************************************************************************)
\* longest JSON array the TextGenerator returns to the Planner
MaxPlan == 12
\* number of records a successful SearchProvider call returns
MaxHits == 2
\* the clock advances in ticks; this many ticks make one second
TicksPerSecond == 2
\* the last tick of the clock
MaxClock == 3

(***************************************************************************)
(* Text helpers.                                                           *)
(***************************************************************************)
Min(a, b) == IF a < b THEN a ELSE b

RECURSIVE Flatten(_)
Flatten(ss) == IF ss = <<>> THEN <<>> ELSE Head(ss) \o Flatten(Tail(ss))

Range(s) == {s[k] : k \in 1..Len(s)}

\* "sub in s" for Python strings
Contains(s, sub) ==
    \E k \in 0..(Len(s) - Len(sub)) : SubSeq(s, k + 1, k + Len(sub)) = sub

Whitespace == {" ", "\n"}

\* str.strip()
RECURSIVE LStrip(_)
LStrip(s) == IF s # <<>> /\ Head(s) \in Whitespace THEN LStrip(Tail(s)) ELSE s

RECURSIVE RStrip(_)
RStrip(s) ==
    IF s # <<>> /\ s[Len(s)] \in Whitespace
    THEN RStrip(SubSeq(s, 1, Len(s) - 1))
    ELSE s

Strip(s) == RStrip(LStrip(s))

\* index of the first element of s that is in the set S, 0 if there is none
RECURSIVE IndexFrom(_, _, _)
IndexFrom(s, S, k) ==
    IF k > Len(s) THEN 0
    ELSE IF s[k] \in S THEN k
    ELSE IndexFrom(s, S, k + 1)

IndexOf(s, S) == IndexFrom(s, S, 1)

\* s.split(sep)[0], for the separators S
BeforeFirst(s, S) ==
    IF IndexOf(s, S) = 0 THEN s ELSE SubSeq(s, 1, IndexOf(s, S) - 1)

\* everything after the first separator: s.split(sep, 1)[1]
AfterFirst(s, S) == SubSeq(s, IndexOf(s, S) + 1, Len(s))

\* s.replace(old, new) for single tokens
ReplaceTok(s, old, new) == [k \in 1..Len(s) |-> IF s[k] = old THEN new ELSE s[k]]

\* the letter case of the words of the model's vocabulary
CaseTable ==
    { <<"ai", "Ai">>, <<"quantum", "Quantum">>, <<"computing", "Computing">>,
      <<"overview", "Overview">>, <<"definition", "Definition">>,
      <<"history", "History">>, <<"examples", "Examples">>,
      <<"advantages", "Advantages">>, <<"and", "And">>,
      <<"disadvantages", "Disadvantages">>, <<"latest", "Latest">>,
      <<"developments", "Developments">>, <<"future", "Future">>,
      <<"trends", "Trends">>, <<"applications", "Applications">>,
      <<"challenges", "Challenges">>, <<"statistics", "Statistics">>,
      <<"facet", "Facet">> }

\* str.lower() on one word
LowerTok(w) ==
    IF \E p \in CaseTable : p[2] = w
    THEN (CHOOSE p \in CaseTable : p[2] = w)[1]
    ELSE w

\* str.title() on one word
TitleTok(w) ==
    IF \E p \in CaseTable : p[1] = LowerTok(w)
    THEN (CHOOSE p \in CaseTable : p[1] = LowerTok(w))[2]
    ELSE w

Lower(s) == [k \in 1..Len(s) |-> LowerTok(s[k])]
Title(s) == [k \in 1..Len(s) |-> TitleTok(s[k])]

\* str.capitalize(): first word capitalised, the rest lower-cased
Capitalize(s) ==
    [k \in 1..Len(s) |-> IF k = 1 THEN TitleTok(s[k]) ELSE LowerTok(s[k])]

(***************************************************************************)
(* The inputs of the model.                                                *)
(***************************************************************************)
Topics == { <<>>, <<"Ai">>, <<"Quantum", " ", "computing">> }

\* the topics of the runs of the manager
RunTopics == { <<>>, <<"Quantum", " ", "computing">> }

(***************************************************************************)
(* TextGenerator responses.  A response is either an exception or a text;  *)
(* the text of a JSON-producing prompt is a sequence of pieces: prose,     *)
(* blanks, markdown fences and JSON documents.                             *)
(***************************************************************************)
NoJson == [k |-> "none", items |-> <<>>]
Arr(items) == [k |-> "array", items |-> items]
\* iterating a JSON object yields its keys
Obj(keys) == [k |-> "object", items |-> keys]
Num == [k |-> "number", items |-> <<>>]

Prose == [t |-> "prose", v |-> NoJson]
Blank == [t |-> "blank", v |-> NoJson]
Fence == [t |-> "fence", v |-> NoJson]
FenceJson == [t |-> "fence_json", v |-> NoJson]
Json(v) == [t |-> "json", v |-> v]

Unscripted == [kind |-> "any", text |-> <<>>]
Raises == [kind |-> "raise", text |-> <<>>]
Says(text) == [kind |-> "text", text |-> text]

\* the ways a generator wraps a JSON document
Wrappings(v) ==
    { <<Json(v)>>,
      <<Blank, Json(v), Blank>>,
      <<FenceJson, Blank, Json(v), Blank, Fence>>,
      <<Prose, FenceJson, Blank, Json(v), Blank, Fence, Prose>>,
      <<Fence, Blank, Json(v), Blank, Fence>>,
      <<Prose, Json(v)>> }

\* the lengths of the JSON arrays the generator returns to the Planner: none,
\* one, a full batch, a batch and one more, and the longest
PlanLengths == {0, 1, 5, 6, MaxPlan}

\* the query the generator proposes for facet n of the topic
LLMItem(t, n) ==
    [query |-> t \o <<" ", "facet", ToString(n)>>,
     reason |-> <<"Reason for facet ", ToString(n)>>]

PlannerJson(t, lengths) ==
    { Arr([n \in 1..len |-> LLMItem(t, n)]) : len \in lengths }
    \cup { Arr(<<LLMItem(t, 1), [reason |-> <<"no query field">>]>>),
           Arr(<<[query |-> <<"no reason field">>]>>),
           Arr(<<[str |-> <<"a string item">>]>>),
           Obj(<<>>), Obj(<<"queries">>), Num }

PlannerResponses(t, lengths) ==
    {Raises, Says(<<Prose>>), Says(<<>>)}
    \cup UNION { {Says(w) : w \in Wrappings(v)} : v \in PlannerJson(t, lengths) }

(***************************************************************************)
(* PlanningAgent                                                           *)
(***************************************************************************)
NoPlan == [topic |-> <<>>, description |-> <<>>, queries |-> <<"none">>]

\* str.strip() on a response: blanks are its whitespace
RECURSIVE StripBlanks(_)
StripBlanks(s) ==
    IF s # <<>> /\ Head(s) = Blank THEN StripBlanks(Tail(s))
    ELSE IF s # <<>> /\ s[Len(s)] = Blank
         THEN StripBlanks(SubSeq(s, 1, Len(s) - 1))
    ELSE s

\* the json_str the parsers extract from a response (markdown fences removed)
ExtractJsonStr(response) ==
    IF IndexOf(response, {FenceJson}) # 0
    THEN StripBlanks(BeforeFirst(AfterFirst(response, {FenceJson}),
                                 {Fence, FenceJson}))
    ELSE IF IndexOf(response, {Fence}) # 0
    THEN StripBlanks(BeforeFirst(AfterFirst(response, {Fence}), {Fence}))
    ELSE response

\* json.loads: whitespace around one JSON document is accepted, nothing else
JsonLoads(str) ==
    LET s == StripBlanks(str)
    IN  IF Len(s) = 1 /\ s[1].t = "json"
        THEN [exc |-> "none", value |-> s[1].v]
        ELSE [exc |-> "JSONDecodeError", value |-> NoJson]

\* the exception of SearchQuery(query=item["query"], reason=item["reason"])
ItemError(item) ==
    IF "query" \in DOMAIN item /\ "reason" \in DOMAIN item THEN "none"
    ELSE IF "query" \in DOMAIN item \/ "reason" \in DOMAIN item THEN "KeyError"
    ELSE "TypeError"

\* the loop "for item in query_data" of _generate_queries_with_llm
ConvertItems(value) ==
    IF value.k \notin {"array", "object"}
    THEN [exc |-> "TypeError", queries |-> <<>>]
    ELSE IF value.k = "object" /\ value.items # <<>>
    THEN [exc |-> "TypeError", queries |-> <<>>]
    ELSE LET bad == {n \in 1..Len(value.items) : ItemError(value.items[n]) # "none"}
         IN  IF bad # {}
             THEN [exc |-> ItemError(value.items[CHOOSE n \in bad : \A m \in bad : n <= m]),
                   queries |-> <<>>]
             ELSE [exc |-> "none",
                   queries |-> [n \in 1..Len(value.items) |->
                                  [query |-> value.items[n].query,
                                   reason |-> value.items[n].reason]]]

_generate_queries_with_llm(t, response) ==
    IF response.kind = "raise"
    THEN [exc |-> "GenerationError", queries |-> <<>>]
    ELSE LET parsed == JsonLoads(ExtractJsonStr(response.text))
         IN  IF parsed.exc # "none"
             THEN [exc |-> parsed.exc, queries |-> <<>>]
             ELSE ConvertItems(parsed.value)

templates ==
    << [suffix |-> <<"overview">>,
        reason |-> <<"To get a general overview of the topic">>],
       [suffix |-> <<"definition">>,
        reason |-> <<"To understand the basic definition and concepts">>],
       [suffix |-> <<"history">>,
        reason |-> <<"To learn about the historical development">>],
       [suffix |-> <<"examples">>,
        reason |-> <<"To find concrete examples and case studies">>],
       [suffix |-> <<"advantages", " ", "and", " ", "disadvantages">>,
        reason |-> <<"To understand the pros and cons">>],
       [suffix |-> <<"latest", " ", "developments">>,
        reason |-> <<"To learn about recent advancements">>],
       [suffix |-> <<"future", " ", "trends">>,
        reason |-> <<"To understand future directions and predictions">>],
       [suffix |-> <<"applications">>,
        reason |-> <<"To discover practical applications">>],
       [suffix |-> <<"challenges">>,
        reason |-> <<"To identify current challenges and limitations">>],
       [suffix |-> <<"statistics">>,
        reason |-> <<"To find relevant data and statistics">>] >>

\* the templates applied without the blank between topic and suffix
_generate_search_queries_unspaced(t) ==
    [n \in 1..Len(templates) |->
        [query |-> t \o templates[n].suffix, reason |-> templates[n].reason]]

_generate_search_queries(t) ==
    [n \in 1..Len(templates) |->
        [query |-> t \o <<" ">> \o templates[n].suffix,
         reason |-> templates[n].reason]]

\* a clause "except json.JSONDecodeError"
PlannerCatchesJsonOnly(exc) == exc = "JSONDecodeError"

\* the clause "except Exception" of PlanningAgent.process
PlannerCatches(exc) == exc # "none"

\* PlanningAgent.process: [exc, plan, path]
PlanningProcess(t, response) ==
    LET generated == _generate_queries_with_llm(t, response)
    IN  IF generated.exc = "none"
        THEN [exc |-> "none", path |-> "llm",
              plan |-> [topic |-> t,
                        description |->
                            <<"Research plan for the topic: ">> \o t
                            \o <<". This plan includes ", ToString(Len(generated.queries)),
                                 " search queries to gather information about different aspects of the topic.">>,
                        queries |-> generated.queries]]
        ELSE IF PlannerCatches(generated.exc)
        THEN [exc |-> "none", path |-> "template",
              plan |-> [topic |-> t,
                        description |->
                            <<"Research plan for the topic: ">> \o t
                            \o <<". This plan includes search queries to gather information about different aspects of the topic.">>,
                        queries |-> _generate_search_queries(t)]]
        ELSE [exc |-> generated.exc, path |-> "raise", plan |-> NoPlan]

(***************************************************************************)
(* SearchProvider and the summarising TextGenerator                        *)
(***************************************************************************)
ProviderOutcomes == {"raise", "empty", "hits"}
SummaryOutcomes == {"raise", "empty", "blank", "text"}
SaveOutcomes == {"ok", "fail"}

\* an external capability either behaves one way for the whole run or,
\* under "any", chooses anew at every call
Choices(mode, all) == IF mode = "any" THEN all ELSE {mode}

\* every call of every capability chooses anew: provider, summary and save
\* are the Searcher's provider, generator and file write; synth, body and
\* write are the Writer's summary prompt, body prompt and report write
AnyEnv ==
    [provider |-> "any", summary |-> "any", save |-> "any", synth |-> "any",
     body |-> "any", write |-> "any"]

\* no call of WriterAgent.process has reached its generator calls
NoOutcomes ==
    [summarised |-> "none", questioned |-> Unscripted, bodied |-> "none",
     saved |-> "none"]

\* search_response.get("results", []) for the provider's outcomes; "empty"
\* is the error-tagged response of RealWebSearchTool.execute
ProviderHits(q, outcome) ==
    IF outcome = "hits"
    THEN [n \in 1..MaxHits |->
            [title |-> <<"Page ", ToString(n), " on ">> \o q,
             url |-> <<"https://site", ToString(n), ".example.org/">>
                     \o ReplaceTok(q, " ", "+"),
             snippet |-> <<"Finding ", ToString(n), " about ">> \o q
                         \o <<".", " ", "Further detail", ".">>]]
    ELSE <<>>

\* the text generate_text returns for the summary prompt
SummaryText(q, outcome) ==
    CASE outcome = "empty" -> <<>>
      [] outcome = "blank" -> <<" ", "\n">>
      [] OTHER -> <<"\n", "Generated summary for ">> \o q \o <<".", "\n">>

(***************************************************************************)
(* Artifact files (utils/storage.py and SearchAgent._save_search_result)   *)
(***************************************************************************)
\* the tokens of a topic or query that are not alphanumeric; each is one
\* character, every other token is a word of letters and digits
NonAlnum == {" ", "\n", ".", ",", "?", "!", "(", ")", "-", "'", ":", "/", "+"}

\* "".join(c if c.isalnum() else "_" for c in text)
Sanitize(text) ==
    [k \in 1..Len(text) |-> IF text[k] \in NonAlnum THEN "_" ELSE text[k]]

\* text[:n], n counted in characters; a word cut by the slice is kept as
\* the word and the number of its characters that remain
RECURSIVE Truncate(_, _)
Truncate(text, n) ==
    IF text = <<>> \/ n = 0 THEN <<>>
    ELSE IF Len(Head(text)) <= n
    THEN <<Head(text)>> \o Truncate(Tail(text), n - Len(Head(text)))
    ELSE <<Head(text), "[:", ToString(n), "]">>

\* the length the sanitized topic or query is cut to
SlugLen == 50

Slug(text) == Truncate(Sanitize(text), SlugLen)

\* int(time.time()) and datetime.now().strftime("%Y%m%d_%H%M%S"): the clock
\* cut to whole seconds (the runs of the model stay within one day)
WholeSeconds(now) == now \div TicksPerSecond

SearchFile(q, now) == Slug(q) \o <<"_", ToString(WholeSeconds(now)), ".json">>

ReportFile(t, now) ==
    Slug(t) \o <<"_", "YYYYmmdd", "_", ToString(WholeSeconds(now)), ".md">>

\* how often a file of the store has been opened for writing (history)
Writes(store, file) ==
    IF \E a \in store : a.file = file
    THEN (CHOOSE a \in store : a.file = file).writes
    ELSE 0

\* open(file, "w") and write: the file is created or its content replaced
WriteFile(store, file, content) ==
    {a \in store : a.file # file}
    \cup {[file |-> file, content |-> content, writes |-> Writes(store, file) + 1]}

(***************************************************************************)
(* SearchAgent                                                             *)
(***************************************************************************)
NoResult == [query |-> <<>>, summary |-> <<>>, sources |-> <<"none">>]

_simulate_search(q) ==
    << [title |-> Title(q) \o <<" - Wikipedia">>,
        url |-> <<"https://en.wikipedia.org/wiki/">> \o ReplaceTok(q, " ", "_"),
        snippet |-> <<"This article is about ">> \o q \o <<".", " ">>
                    \o Capitalize(q)
                    \o <<" refers to a concept or topic that has various aspects and applications",
                         ".", ".", ".">>],
       [title |-> <<"Understanding ">> \o Title(q) \o <<" | Educational Resource">>,
        url |-> <<"https://education.example.com/">>
                \o Lower(ReplaceTok(q, " ", "-")),
        snippet |-> <<"Learn about ">> \o q
                    \o <<" with our comprehensive guide", ".",
                         " This resource covers the fundamentals, history, and modern applications",
                         ".", ".", ".">>],
       [title |-> <<"Latest Developments in ">> \o Title(q) \o <<" | News">>,
        url |-> <<"https://news.example.com/articles/">>
                \o Lower(ReplaceTok(q, " ", "-")),
        snippet |-> <<"Recent developments in ">> \o q
                    \o <<" have shown promising results", ".",
                         " Experts in the field suggest that future advancements will",
                         ".", ".", ".">>],
       [title |-> <<"Research on ">> \o Title(q) \o <<": A Comprehensive Analysis">>,
        url |-> <<"https://research.example.com/papers/">>
                \o Lower(ReplaceTok(q, " ", "_")),
        snippet |-> <<"This research paper examines ">> \o q
                    \o <<" from multiple perspectives", ".",
                         " The authors conducted extensive studies to analyze",
                         ".", ".", ".">>],
       [title |-> <<"Discussion: ">> \o Title(q) \o <<" - Forum">>,
        url |-> <<"https://forum.example.com/topics/">>
                \o Lower(ReplaceTok(q, " ", "-")),
        snippet |-> <<"Join the discussion about ">> \o q
                    \o <<".", " Users share their experiences, insights, and questions related to various aspects",
                         ".", ".", ".">>] >>

NoInformation(q) == <<"No relevant information found for the query: ">> \o q

\* the template summary: the first sentence of every snippet, numbered
_summarize_results(q, hits) ==
    IF hits = <<>>
    THEN NoInformation(q)
    ELSE <<"Summary of search results for '">> \o q \o <<"':", "\n", "\n",
           "Key points from the search results:", "\n">>
         \o Flatten([n \in 1..Len(hits) |->
                        <<ToString(n), ". ">>
                        \o BeforeFirst(hits[n].snippet, {"."}) \o <<".", "\n">>])
         \o <<"\n", "The search returned ", ToString(Len(hits)),
              " results related to ">> \o q \o <<".">>

\* the value _summarize_results_with_llm returns once generate_text has
\* answered (generated is the outcome of that call)
_summarize_results_with_llm(q, hits, generated) ==
    IF generated = "raise"
    THEN _summarize_results(q, hits)
    ELSE Strip(SummaryText(q, generated))

Sources(hits) == [n \in 1..Len(hits) |-> hits[n].url]

\* a call of SearchAgent.run(query) that has not run yet
NewTask(q) ==
    [query |-> q, pc |-> "created", provided |-> "none", generated |-> "none",
     saves |-> 0, saved |-> "none", result |-> NoResult]

\* the call reaches "await self.search_tool.execute(query=query, num_results=5)"
StartTask(task) == [task EXCEPT !.pc = "provider"]

\* the result is returned without the call of _save_search_result
FinishTaskUnsaved(task, summary, hits) ==
    [task EXCEPT !.pc = "done",
                 !.result = [query |-> task.query, summary |-> summary,
                             sources |-> Sources(hits)]]

\* "result = SearchResult(...); await self._save_search_result(result); return"
FinishTask(task, summary, hits) ==
    [task EXCEPT !.pc = "done", !.saves = @ + 1,
                 !.result = [query |-> task.query, summary |-> summary,
                             sources |-> Sources(hits)]]

\* execute has answered: on an exception the except branch awaits the sleep
\* of _simulate_search; with no snippet the summary needs no generator call
AfterProvider(task, outcome) ==
    LET hits == ProviderHits(task.query, outcome)
    IN  IF outcome = "raise"
        THEN [task EXCEPT !.pc = "sleep", !.provided = outcome]
        ELSE IF hits = <<>>
        THEN FinishTask([task EXCEPT !.provided = outcome],
                        NoInformation(task.query), hits)
        ELSE [task EXCEPT !.pc = "llm", !.provided = outcome]

\* generate_text has answered (or raised) inside _summarize_results_with_llm
AfterGenerator(task, outcome) ==
    LET hits == ProviderHits(task.query, task.provided)
    IN  FinishTask([task EXCEPT !.generated = outcome],
                   _summarize_results_with_llm(task.query, hits, outcome), hits)

\* the sleep of _simulate_search is over
AfterSleep(task) ==
    LET hits == _simulate_search(task.query)
    IN  FinishTask(task, _summarize_results(task.query, hits), hits)

\* the task after _save_search_result: whatever the write raises is caught
\* and logged, and process returns the result
SaveReturns(task, outcome) ==
    IF task.pc = "done" THEN [task EXCEPT !.saved = outcome] ELSE task

\* _save_search_result at time now: the file of the result is written
\* unless get_storage_path or the write raises
SaveSearchResult(store, task, outcome, now) ==
    IF task.pc = "done" /\ outcome = "ok"
    THEN WriteFile(store, SearchFile(task.result.query, now), task.result)
    ELSE store

(***************************************************************************)
(* WriterAgent                                                             *)
(***************************************************************************)
NoReport ==
    [topic |-> <<>>, summary |-> <<>>, content |-> <<>>,
     follow_up_questions |-> <<"none">>]

\* a JSON string as an item of an array
Str(text) == [str |-> text]
\* a JSON string as a document: len() counts its characters
StrDoc(chars) == [k |-> "string", items |-> chars]

LLMQuestion(t, n) == Str(<<"Generated question ", ToString(n), " about ">> \o t \o <<"?">>)

QuestionJson(t) ==
    { Arr([n \in 1..len |-> LLMQuestion(t, n)]) : len \in {0, 2, 3} }
    \cup { Arr(<<Num, Num, Num>>), Obj(<<"q1", "q2", "q3">>),
           StrDoc(<<"w", "h", "y", "?">>), Num }

QuestionResponses(t) ==
    {Raises, Says(<<Prose>>)}
    \cup UNION { {Says(<<Json(v)>>),
                  Says(<<Prose, FenceJson, Blank, Json(v), Blank, Fence>>)}
                 : v \in QuestionJson(t) }

TextOutcomes == {"raise", "text"}

_create_summary(t, res) ==
    <<"This report provides an overview of ">> \o t
    \o <<" based on ", ToString(Len(res)), " search queries. ",
         "The research covers various aspects including definition, history, applications, and future trends of ">>
    \o t
    \o <<". ", "Key findings highlight the importance and impact of ">> \o t
    \o <<" in relevant domains.">>

_create_summary_with_llm(t, res, outcome) ==
    IF outcome = "raise"
    THEN _create_summary(t, res)
    ELSE Strip(<<" ", "Generated synthesis about ">> \o t \o <<".", "\n">>)

_generate_follow_up_questions(t) ==
    << <<"What are the most significant recent advancements in ">> \o t \o <<"?">>,
       <<"How does ">> \o t \o <<" impact different industries or sectors?">>,
       <<"What are the ethical considerations related to ">> \o t \o <<"?">>,
       <<"How does ">> \o t \o <<" compare to alternative approaches or technologies?">>,
       <<"What are the long-term implications of ">> \o t \o <<" for society?">>,
       <<"Who are the leading experts or organizations in the field of ">> \o t \o <<"?">>,
       <<"What are the most promising research directions for ">> \o t
          \o <<" in the next decade?">>,
       <<"How is ">> \o t \o <<" regulated or governed in different countries or regions?">>,
       <<"What are the economic implications of ">> \o t \o <<"?">>,
       <<"How accessible is ">> \o t \o <<" to different populations or communities?">> >>

\* what _generate_questions_with_llm returns: [shape, list]; shape "list" is
\* a list of strings, any other shape is a value of the wrong type that
\* passed the length test
_generate_questions_with_llm(t, response) ==
    LET fallback == [shape |-> "list", list |-> _generate_follow_up_questions(t)]
        parsed == JsonLoads(ExtractJsonStr(response.text))
        value == parsed.value
    IN  IF response.kind = "raise" \/ parsed.exc # "none" THEN fallback
        ELSE IF value.k \notin {"array", "object", "string"} THEN fallback
        ELSE IF Len(value.items) < 3 THEN fallback
        ELSE IF value.k = "array"
                /\ \A n \in 1..Len(value.items) : "str" \in DOMAIN value.items[n]
        THEN [shape |-> "list",
              list |-> [n \in 1..Len(value.items) |-> value.items[n].str]]
        ELSE [shape |-> value.k, list |-> <<>>]

\* the ten sections of the template report, in the order of the dict
result_types ==
    << <<"overview">>, <<"definition">>, <<"history">>, <<"examples">>,
       <<"advantages", " ", "and", " ", "disadvantages">>,
       <<"latest", " ", "developments">>, <<"future", " ", "trends">>,
       <<"applications">>, <<"challenges">>, <<"statistics">> >>

\* the last matching category instead of the first
CategoryOfLast(result) ==
    LET lowered == Lower(result.query)
        hit == {c \in 1..Len(result_types) : Contains(lowered, result_types[c])}
    IN  IF hit = {} THEN 0 ELSE CHOOSE c \in hit : \A d \in hit : c >= d

\* index of the section a result is filed under, 0 if under none: the first
\* category, in the order of the dict, that occurs in the lower-cased query
CategoryOf(result) ==
    LET lowered == Lower(result.query)
        hit == {c \in 1..Len(result_types) : Contains(lowered, result_types[c])}
    IN  IF hit = {} THEN 0 ELSE CHOOSE c \in hit : \A d \in hit : c <= d

\* the summary without the list of sources
RenderResultUnsourced(result) == result.summary \o <<"\n", "\n">>

\* the lines a result contributes to its section: summary and sources
RenderResult(result) ==
    result.summary \o <<"\n", "\n">>
    \o (IF result.sources = <<>> THEN <<>>
        ELSE <<"Sources:", "\n">>
             \o Flatten([n \in 1..Len(result.sources) |->
                            <<"- ">> \o result.sources[n] \o <<"\n">>])
             \o <<"\n">>)

\* the section of category c, given the category of every result
RenderSection(c, res, cats) ==
    IF \A n \in 1..Len(res) : cats[n] # c THEN <<>>
    ELSE <<"### ">> \o Title(result_types[c]) \o <<"\n", "\n">>
         \o Flatten([n \in 1..Len(res) |->
                        IF cats[n] = c THEN RenderResult(res[n]) ELSE <<>>])

Findings(res) ==
    LET cats == [n \in 1..Len(res) |-> CategoryOf(res[n])]
    IN  Flatten([c \in 1..Len(result_types) |-> RenderSection(c, res, cats)])

_create_report_content(t, res) ==
    <<"# Research Report: ">> \o Title(t) \o <<"\n", "\n", "## Summary", "\n", "\n">>
    \o _create_summary(t, res)
    \o <<"\n", "\n", "## Introduction", "\n", "\n",
         "This report presents findings from research on ">> \o t
    \o <<". ", "The research was conducted using multiple search queries to gather comprehensive information about different aspects of ">>
    \o t
    \o <<". ", "The following sections present the findings organized by topic.",
         "\n", "\n", "## Findings", "\n", "\n">>
    \o Findings(res)
    \o <<"## Conclusion", "\n", "\n", "The research on ">> \o t
    \o <<" has provided valuable insights into various aspects of the subject. ",
         "From understanding the basic concepts to exploring the latest developments and future trends, this report offers a comprehensive overview of ">>
    \o t
    \o <<". ", "Further research could explore specific areas in more depth and address the follow-up questions identified.",
         "\n", "\n", "## Follow-up Questions", "\n", "\n">>
    \o Flatten([n \in 1..Len(_generate_follow_up_questions(t)) |->
                   <<"- ">> \o _generate_follow_up_questions(t)[n] \o <<"\n">>])

_create_report_with_llm(t, res, outcome) ==
    IF outcome = "raise"
    THEN _create_report_content(t, res)
    ELSE Strip(<<"\n", "# Generated report on ">> \o t \o <<"\n">>)

\* data.get(key, default) on the dict handed to process
DataGet(data, key, default) == IF key \in DOMAIN data THEN data[key] ELSE default

\* only the topic is tested
InvalidInputTopicOnly(t, res) == t = <<>>

\* "if not topic: raise ValueError" and "if not results: raise ValueError"
InvalidInput(t, res) == t = <<>> \/ res = <<>>

\* save_report leaves the store as it is
save_report_unwritten(store, content, t, now, outcome) ==
    [exc |-> IF outcome = "ok" THEN "none" ELSE "OSError", store |-> store]

\* save_report(report.content, topic) at time now: the exception it raises,
\* if any, and the report store it leaves
save_report(store, content, t, now, outcome) ==
    IF outcome = "ok"
    THEN [exc |-> "none", store |-> WriteFile(store, ReportFile(t, now), content)]
    ELSE [exc |-> "OSError", store |-> store]

\* WriterAgent.process(data) at time now: the three generator calls answer
\* with summarised, questioned and bodied, the report write with saved
WriterProcess(data, summarised, questioned, bodied, saved, store, now) ==
    LET t == DataGet(data, "topic", <<>>)
        res == DataGet(data, "results", <<>>)
        questions == _generate_questions_with_llm(t, questioned)
        rep == [topic |-> t,
                summary |-> _create_summary_with_llm(t, res, summarised),
                content |-> _create_report_with_llm(t, res, bodied),
                follow_up_questions |-> questions.list]
        write == save_report(store, rep.content, t, now, saved)
    IN  IF InvalidInput(t, res)
        THEN [exc |-> "ValueError", report |-> NoReport, genCalls |-> 0,
              store |-> store]
        ELSE IF questions.shape # "list"
        THEN [exc |-> "ValidationError", report |-> NoReport, genCalls |-> 3,
              store |-> store]
        ELSE IF write.exc # "none"
        THEN [exc |-> write.exc, report |-> NoReport, genCalls |-> 3,
              store |-> write.store]
        ELSE [exc |-> "none", report |-> rep, genCalls |-> 3,
              store |-> write.store]

(***************************************************************************)
(* ResearchManager                                                         *)
(***************************************************************************)
\* ResearchManager(model_provider=...): no keyword of the RAG switch given
DefaultConfig == [model_provider |-> "given"]

\* "self.use_rag = use_rag and model_type == 'ollama'" with the defaults of
\* the signature, use_rag=False and model_type="openai"
UseRag(kwargs) ==
    /\ DataGet(kwargs, "use_rag", FALSE)
    /\ DataGet(kwargs, "model_type", "openai") = "ollama"

\* _chunk_document is not running
NoFrame == [pc |-> "none"]

\* the web UI has no task, no thread and no request
NoUi ==
    /\ active_tasks = {}
    /\ completed_tasks = {}
    /\ threads = <<>>
    /\ requests = <<>>

batch_size == 5

\* the slice without its upper end: queries[i:]
NextBatchUnsliced(queries, i) == SubSeq(queries, i, Len(queries))

\* queries[i:i+batch_size] with the 1-based loop index i
NextBatch(queries, i) == SubSeq(queries, i, Min(i + batch_size - 1, Len(queries)))

\* a join that returns at the first completion (asyncio.wait, FIRST_COMPLETED)
JoinReadyFirst(batch) == \E t \in 1..Len(batch) : batch[t].pc = "done"

\* asyncio.gather returns when every awaitable of the batch has returned
JoinReady(batch) == \A t \in 1..Len(batch) : batch[t].pc = "done"

\* the results of the batch, last argument first
GatherResultsReversed(batch) ==
    [t \in 1..Len(batch) |-> batch[Len(batch) + 1 - t].result]

\* the list gather returns: the results in the order of its arguments
GatherResults(batch) == [t \in 1..Len(batch) |-> batch[t].result]

\* "return results" inside the loop body: the loop ends with its first batch
LoopOverFirstBatch(queries, i) == i > 1 \/ i > Len(queries)

\* the loop "for i in range(0, len(queries), batch_size)" is over
LoopOver(queries, i) == i > Len(queries)

\* plan index of the t-th task of the batch in flight
PlanIndex(t) == nextIdx + t - 1

InFlight == {t \in 1..Len(tasks) : tasks[t].pc \in {"provider", "llm", "sleep"}}

\* the behaviours of a run: the summary generator matters only when the
\* provider returns records, and "empty" and "blank" texts strip to the same
Envs ==
    {e \in [provider : ProviderOutcomes, summary : SummaryOutcomes \ {"empty"},
            save : SaveOutcomes, synth : {"any"}, body : {"any"},
            write : {"any"}] :
        e.provider # "hits" => e.summary = "raise"}

Init ==
    /\ phase = "Idle"
    /\ topic \in RunTopics
    /\ env \in Envs
    /\ llm = Unscripted
    /\ plan = NoPlan
    /\ planPath = "none"
    /\ nextIdx = 1
    /\ tasks = <<>>
    /\ results = <<>>
    /\ batches = <<>>
    /\ started = {}
    /\ completed = {}
    /\ plannerCalls = <<>>
    /\ writerCalls = <<>>
    /\ report = NoReport
    /\ error = "none"
    /\ searchStore = {}
    /\ reportStore = {}
    /\ clock = 0
    /\ genCalls = 0
    /\ original = NoReport
    /\ config = DefaultConfig
    /\ use_rag = UseRag(DefaultConfig)
    /\ vectorOps = <<>>
    /\ outcomes = NoOutcomes
    /\ runs = <<>>
    /\ chunking = NoFrame
    /\ NoUi

\* run(query) is called: _plan_research awaits planning_agent.run(topic)
Run ==
    /\ phase = "Idle"
    /\ phase' = "Planning"
    /\ plannerCalls' = Append(plannerCalls, topic)
    /\ genCalls' = genCalls + 1
    /\ UNCHANGED <<topic, env, config, use_rag, vectorOps, outcomes, runs,
                   chunking, uiVars, clock, original, llm, plan, planPath,
                   nextIdx, tasks, results, batches, started, completed,
                   writerCalls, report, error, searchStore, reportStore>>

\* the result list starts from the results of the call before
KeptResults(prior) == prior

\* "results = []": every call of _execute_searches starts from an empty list
FreshResults(prior) == <<>>

\* the Planner's generator call answers; process returns the plan or raises,
\* and run enters _execute_searches
PlannerReturns ==
    /\ phase = "Planning"
    /\ \E response \in (IF llm = Unscripted
                        THEN PlannerResponses(topic, PlanLengths)
                        ELSE {llm}) :
          LET r == PlanningProcess(topic, response)
          IN  /\ planPath' = r.path
              /\ IF r.exc = "none"
                 THEN /\ plan' = r.plan
                      /\ phase' = "Searching"
                      /\ error' = error
                 ELSE /\ plan' = plan
                      /\ phase' = "Failed"
                      /\ error' = r.exc
    /\ nextIdx' = 1
    /\ results' = FreshResults(results)
    /\ UNCHANGED <<topic, env, config, use_rag, vectorOps, outcomes, runs,
                   chunking, uiVars, clock, genCalls, original, llm, tasks,
                   batches, started, completed, plannerCalls, writerCalls,
                   report, searchStore, reportStore>>

\* one iteration of the batch loop up to "await asyncio.gather(*tasks)"
IssueBatch ==
    /\ phase = "Searching"
    /\ tasks = <<>>
    /\ ~LoopOver(plan.queries, nextIdx)
    /\ LET batch == NextBatch(plan.queries, nextIdx)
       IN  /\ tasks' = [t \in 1..Len(batch) |-> NewTask(batch[t].query)]
           /\ batches' = Append(batches, Len(batch))
    /\ UNCHANGED <<phase, topic, env, config, use_rag, vectorOps, outcomes,
                   runs, chunking, uiVars, clock, genCalls, original, llm,
                   plan, planPath, nextIdx, results, started, completed,
                   plannerCalls, writerCalls, report, error, searchStore,
                   reportStore>>

\* the event loop runs a task of the batch for the first time; the ready
\* queue is first-in first-out, so the tasks start in the order of creation
StartSearch(t) ==
    /\ phase \in {"Searching", "Direct"}
    /\ tasks[t].pc = "created"
    /\ \A u \in 1..(t - 1) : tasks[u].pc # "created"
    /\ tasks' = [tasks EXCEPT ![t] = StartTask(@)]
    /\ started' = started \cup {PlanIndex(t)}
    /\ UNCHANGED <<phase, topic, env, config, use_rag, vectorOps, outcomes,
                   runs, chunking, uiVars, clock, genCalls, original, llm,
                   plan, planPath, nextIdx, results, batches, completed,
                   plannerCalls, writerCalls, report, error, searchStore,
                   reportStore>>

\* the effect of a step of task t that leaves it as "after"
TaskStep(t, after, saved) ==
    /\ tasks' = [tasks EXCEPT ![t] = SaveReturns(after, saved)]
    /\ completed' = IF after.pc = "done" THEN completed \cup {PlanIndex(t)}
                    ELSE completed
    /\ genCalls' = IF after.pc = "llm" THEN genCalls + 1 ELSE genCalls
    /\ searchStore' = SaveSearchResult(searchStore, after, saved, clock)
    /\ UNCHANGED <<phase, topic, env, config, use_rag, vectorOps, outcomes,
                   runs, chunking, uiVars, clock, original, llm, plan,
                   planPath, nextIdx, results, batches, started,
                   plannerCalls, writerCalls, report, error, reportStore>>

\* search_tool.execute answers task t
ProviderReturns(t) ==
    /\ phase \in {"Searching", "Direct", "FollowUp"}
    /\ tasks[t].pc = "provider"
    /\ \E outcome \in Choices(env.provider, ProviderOutcomes),
          saved \in Choices(env.save, SaveOutcomes) :
          TaskStep(t, AfterProvider(tasks[t], outcome), saved)

\* generate_text answers the summary prompt of task t
GeneratorReturns(t) ==
    /\ phase \in {"Searching", "Direct", "FollowUp"}
    /\ tasks[t].pc = "llm"
    /\ \E outcome \in Choices(env.summary, SummaryOutcomes),
          saved \in Choices(env.save, SaveOutcomes) :
          TaskStep(t, AfterGenerator(tasks[t], outcome), saved)

\* the sleep of _simulate_search of task t is over
SleepReturns(t) ==
    /\ phase \in {"Searching", "Direct", "FollowUp"}
    /\ tasks[t].pc = "sleep"
    /\ \E saved \in Choices(env.save, SaveOutcomes) :
          TaskStep(t, AfterSleep(tasks[t]), saved)

\* gather returns: "results.extend(batch_results)" and the loop advances
GatherReturns ==
    /\ phase = "Searching"
    /\ tasks # <<>>
    /\ JoinReady(tasks)
    /\ results' = results \o GatherResults(tasks)
    /\ nextIdx' = nextIdx + batch_size
    /\ tasks' = <<>>
    /\ UNCHANGED <<phase, topic, env, config, use_rag, vectorOps, outcomes,
                   runs, chunking, uiVars, clock, genCalls, original, llm,
                   plan, planPath, batches, started, completed, plannerCalls,
                   writerCalls, report, error, searchStore, reportStore>>

\* RAGProcessor(collection_name="research_data"): VectorDBManager.__init__
\* gets the collection or creates it; without RAG there is no processor
ConstructOps(rag) ==
    IF rag THEN <<[op |-> "get_or_create_collection"]>> ELSE <<>>

\* the loop "for result in search_results" of _generate_report: reading an
\* attribute that the result's model does not declare raises AttributeError;
\* a result with content is handed to process_document, which adds it
RECURSIVE StoreResults(_, _)
StoreResults(res, t) ==
    IF res = <<>> THEN [exc |-> "none", ops |-> <<>>]
    ELSE LET result == Head(res)
             rest == StoreResults(Tail(res), t)
         IN  IF "content" \notin DOMAIN result
             THEN [exc |-> "AttributeError", ops |-> <<>>]
             ELSE IF result.content = <<>> THEN rest
             ELSE IF {"title", "url"} \subseteq DOMAIN result
             THEN [exc |-> rest.exc,
                   ops |-> <<[op |-> "add", document |-> result.content,
                              metadata |-> [title |-> result.title,
                                            url |-> result.url,
                                            topic |-> t,
                                            query |-> result.query]]>>
                           \o rest.ops]
             ELSE [exc |-> "AttributeError", ops |-> <<>>]

\* the RAG branch is taken whatever the manager was constructed with
_generate_report_always_rag(t, res, rag) ==
    LET stored == StoreResults(res, t)
    IN  IF stored.exc # "none"
        THEN [exc |-> stored.exc, ops |-> stored.ops, data |-> <<>>]
        ELSE [exc |-> "none",
              ops |-> stored.ops \o <<[op |-> "query", text |-> t]>>,
              data |-> [topic |-> t, results |-> res, rag_context |-> t]]

\* _generate_report(topic, search_results) up to the call of the writer:
\* the exception raised, the vector store operations made and the data
\* handed to writer_agent.run
_generate_report(t, res, rag) ==
    LET stored == StoreResults(res, t)
    IN  IF ~rag
        THEN [exc |-> "none", ops |-> <<>>,
              data |-> [topic |-> t, results |-> res]]
        ELSE IF stored.exc # "none"
        THEN [exc |-> stored.exc, ops |-> stored.ops, data |-> <<>>]
        ELSE [exc |-> "none",
              ops |-> stored.ops \o <<[op |-> "query", text |-> t]>>,
              data |-> [topic |-> t, results |-> res, rag_context |-> t]]

\* the effect of _generate_report(t, res) on the run: the writer is awaited
\* or the exception leaves the entry point
GenerateReport(t, res) ==
    LET g == _generate_report(t, res, use_rag)
    IN  /\ vectorOps' = vectorOps \o g.ops
        /\ IF g.exc = "none"
           THEN /\ phase' = "Synthesizing"
                /\ writerCalls' = Append(writerCalls, g.data)
                /\ error' = error
           ELSE /\ phase' = "Failed"
                /\ writerCalls' = writerCalls
                /\ error' = g.exc

\* _execute_searches returns; _generate_report awaits writer_agent.run(data)
ExecuteReturns ==
    /\ phase = "Searching"
    /\ tasks = <<>>
    /\ LoopOver(plan.queries, nextIdx)
    /\ GenerateReport(topic, results)
    /\ UNCHANGED <<topic, env, config, use_rag, outcomes, runs, chunking,
                   uiVars, clock, genCalls, original, llm, plan, planPath,
                   nextIdx, tasks, results, batches, started, completed,
                   plannerCalls, report, searchStore, reportStore>>

\* writer_agent.run returns the report, which the caller returns, or raises
WriterReturns ==
    /\ phase = "Synthesizing"
    /\ LET data == writerCalls[Len(writerCalls)]
       IN  \E summarised \in Choices(env.synth, TextOutcomes),
              questioned \in (IF llm = Unscripted
                              THEN QuestionResponses(DataGet(data, "topic", <<>>))
                              ELSE {llm}),
              bodied \in Choices(env.body, TextOutcomes),
              saved \in Choices(env.write, SaveOutcomes) :
              LET w == WriterProcess(data, summarised, questioned, bodied,
                                     saved, reportStore, clock)
              IN  /\ phase' = IF w.exc = "none" THEN "Done" ELSE "Failed"
                  /\ error' = w.exc
                  /\ report' = w.report
                  /\ genCalls' = genCalls + w.genCalls
                  /\ reportStore' = w.store
                  /\ outcomes' = IF w.genCalls = 0 THEN NoOutcomes
                                 ELSE [summarised |-> summarised,
                                       questioned |-> questioned,
                                       bodied |-> bodied, saved |-> saved]
    /\ UNCHANGED <<topic, env, config, use_rag, vectorOps, runs, chunking,
                   uiVars, clock, original, llm, plan, planPath, nextIdx,
                   tasks, results, batches, started, completed, plannerCalls,
                   writerCalls, searchStore>>

\* time passes
Tick ==
    /\ clock < MaxClock
    /\ clock' = clock + 1
    /\ UNCHANGED <<phase, topic, env, config, use_rag, vectorOps, outcomes,
                   runs, chunking, uiVars, genCalls, original, llm, plan,
                   planPath, nextIdx, tasks, results, batches, started,
                   completed, plannerCalls, writerCalls, report, error,
                   searchStore, reportStore>>

Next ==
    \/ Run
    \/ PlannerReturns
    \/ IssueBatch
    \/ \E t \in 1..Len(tasks) : StartSearch(t)
    \/ \E t \in 1..Len(tasks) : ProviderReturns(t)
    \/ \E t \in 1..Len(tasks) : GeneratorReturns(t)
    \/ \E t \in 1..Len(tasks) : SleepReturns(t)
    \/ GatherReturns
    \/ ExecuteReturns
    \/ WriterReturns

Spec == Init /\ [][Next]_vars

(***************************************************************************)
(* PlanningAgent.process on every topic and every generator response: the  *)
(* run is followed up to the return of the Planner.                        *)
(***************************************************************************)
PlannerInit ==
    /\ phase = "Idle"
    /\ topic \in Topics
    /\ env = AnyEnv
    /\ llm \in PlannerResponses(topic, 0..MaxPlan)
    /\ plan = NoPlan
    /\ planPath = "none"
    /\ nextIdx = 1
    /\ tasks = <<>>
    /\ results = <<>>
    /\ batches = <<>>
    /\ started = {}
    /\ completed = {}
    /\ plannerCalls = <<>>
    /\ writerCalls = <<>>
    /\ report = NoReport
    /\ error = "none"
    /\ searchStore = {}
    /\ reportStore = {}
    /\ clock = 0
    /\ genCalls = 0
    /\ original = NoReport
    /\ config = DefaultConfig
    /\ use_rag = UseRag(DefaultConfig)
    /\ vectorOps = <<>>
    /\ outcomes = NoOutcomes
    /\ runs = <<>>
    /\ chunking = NoFrame
    /\ NoUi

PlannerNext ==
    \/ Run
    \/ PlannerReturns

PlannerSpec == PlannerInit /\ [][PlannerNext]_vars

(***************************************************************************)
(* SearchAgent.run called directly, twice with the same query and          *)
(* concurrently, every external call choosing its outcome anew.            *)
(***************************************************************************)
DirectQueries ==
    { <<"Ai">>, <<"Ai", " ", "overview">>, <<"Quantum", " ", "computing">> }

DirectInit ==
    /\ phase = "Direct"
    /\ topic = <<>>
    /\ env = AnyEnv
    /\ llm = Unscripted
    /\ plan = NoPlan
    /\ planPath = "none"
    /\ nextIdx = 1
    /\ tasks \in { <<NewTask(q), NewTask(q)>> : q \in DirectQueries }
    /\ results = <<>>
    /\ batches = <<>>
    /\ started = {}
    /\ completed = {}
    /\ plannerCalls = <<>>
    /\ writerCalls = <<>>
    /\ report = NoReport
    /\ error = "none"
    /\ searchStore = {}
    /\ reportStore = {}
    /\ clock = 0
    /\ genCalls = 0
    /\ original = NoReport
    /\ config = DefaultConfig
    /\ use_rag = UseRag(DefaultConfig)
    /\ vectorOps = <<>>
    /\ outcomes = NoOutcomes
    /\ runs = <<>>
    /\ chunking = NoFrame
    /\ NoUi

DirectNext ==
    \/ Tick
    \/ \E t \in 1..Len(tasks) : StartSearch(t)
    \/ \E t \in 1..Len(tasks) : ProviderReturns(t)
    \/ \E t \in 1..Len(tasks) : GeneratorReturns(t)
    \/ \E t \in 1..Len(tasks) : SleepReturns(t)

DirectSpec == DirectInit /\ [][DirectNext]_vars

(***************************************************************************)
(* WriterAgent.process called alone, once, on every kind of input and with *)
(* every answer of the generator; the answer to the question prompt is     *)
(* scripted at the call.                                                   *)
(***************************************************************************)
WriterResults ==
    { <<>>,
      << [query |-> <<"Ai", " ", "overview">>,
          summary |-> <<"Summary of the overview.">>,
          sources |-> << <<"https://a.example/", "overview">> >>] >>,
      << [query |-> <<"Ai", " ", "impacts">>,
          summary |-> <<"Summary of the impacts.">>,
          sources |-> << <<"https://a.example/", "impacts">> >>],
         [query |-> <<"Ai", " ", "History", " ", "overview">>,
          summary |-> <<"Summary of the history.">>,
          sources |-> << <<"https://b.example/", "history">>,
                         <<"https://c.example/", "history">> >>] >>,
      << [query |-> <<"latest", " ", "developments", " ", "in", " ", "Ai">>,
          summary |-> <<"Summary of the developments.">>,
          sources |-> << <<"https://a.example/", "latest">> >>],
         [query |-> <<"Ai", " ", "statistics">>,
          summary |-> <<"Summary of the statistics.">>,
          sources |-> <<>>],
         [query |-> <<"Ai", " ", "Statistics", " ", "and", " ", "challenges">>,
          summary |-> <<"Summary of the challenges.">>,
          sources |-> << <<"https://b.example/", "challenges">> >>] >> }

\* the dict handed to process: either key may be missing
WriterInputs ==
    { [topic |-> t, results |-> res] : t \in {<<>>, <<"Ai">>}, res \in WriterResults }
    \cup { [topic |-> t] : t \in {<<>>, <<"Ai">>} }
    \cup { [results |-> res] : res \in WriterResults }

WriterInit ==
    /\ phase = "Idle"
    /\ topic = <<>>
    /\ env = AnyEnv
    /\ llm = Unscripted
    /\ plan = NoPlan
    /\ planPath = "none"
    /\ nextIdx = 1
    /\ tasks = <<>>
    /\ results = <<>>
    /\ batches = <<>>
    /\ started = {}
    /\ completed = {}
    /\ plannerCalls = <<>>
    /\ writerCalls = <<>>
    /\ report = NoReport
    /\ error = "none"
    /\ searchStore = {}
    /\ reportStore = {}
    /\ clock = 0
    /\ genCalls = 0
    /\ original = NoReport
    /\ config = DefaultConfig
    /\ use_rag = UseRag(DefaultConfig)
    /\ vectorOps = <<>>
    /\ outcomes = NoOutcomes
    /\ runs = <<>>
    /\ chunking = NoFrame
    /\ NoUi

\* writer_agent.run(data) is called
WriterCalled ==
    /\ phase = "Idle"
    /\ \E data \in WriterInputs :
          /\ writerCalls' = Append(writerCalls, data)
          /\ llm' \in QuestionResponses(DataGet(data, "topic", <<>>))
    /\ phase' = "Synthesizing"
    /\ UNCHANGED <<topic, env, config, use_rag, vectorOps, outcomes, runs,
                   chunking, uiVars, clock, genCalls, original, plan,
                   planPath, nextIdx, tasks, results, batches, started,
                   completed, plannerCalls, report, error, searchStore,
                   reportStore>>

WriterNext ==
    \/ WriterCalled
    \/ WriterReturns

WriterSpec == WriterInit /\ [][WriterNext]_vars

(***************************************************************************)
(* ResearchManager.run_follow_up_research on a report of an earlier run:   *)
(* one search per follow-up question, one after the other, and a report on *)
(* the enhanced topic.                                                     *)
(***************************************************************************)
FollowUpQuestions ==
    { <<>>,
      << <<"Why", " ", "Ai", "?">> >>,
      << <<"Why", " ", "Ai", "?">>, <<"Ai", " ", "history", "?">> >> }

FollowUpReports ==
    { [topic |-> <<"Ai">>, summary |-> <<"Summary of the earlier run.">>,
       content |-> <<"# Report of the earlier run">>,
       follow_up_questions |-> qs] : qs \in FollowUpQuestions }

\* the guard is dropped
NoFollowUpNever(rep) == FALSE

\* "if not report.follow_up_questions or len(report.follow_up_questions) == 0"
NoFollowUp(rep) == rep.follow_up_questions = <<>>

\* f"{report.topic} (with follow-up research)"
enhanced_topic(rep) ==
    rep.topic \o <<" ", "(", "with", " ", "follow", "-", "up", " ", "research", ")">>

FollowUpInit ==
    /\ phase = "Idle"
    /\ topic = <<>>
    /\ env \in Envs
    /\ llm = Unscripted
    /\ plan = NoPlan
    /\ planPath = "none"
    /\ nextIdx = 1
    /\ tasks = <<>>
    /\ results = <<>>
    /\ batches = <<>>
    /\ started = {}
    /\ completed = {}
    /\ plannerCalls = <<>>
    /\ writerCalls = <<>>
    /\ report = NoReport
    /\ error = "none"
    /\ searchStore = {}
    /\ reportStore = {}
    /\ clock = 0
    /\ genCalls = 0
    /\ original \in FollowUpReports
    /\ config = DefaultConfig
    /\ use_rag = UseRag(DefaultConfig)
    /\ vectorOps = <<>>
    /\ outcomes = NoOutcomes
    /\ runs = <<>>
    /\ chunking = NoFrame
    /\ NoUi

\* run_follow_up_research(report) is called: without follow-up questions it
\* returns the report, otherwise it enters the loop over the questions
RunFollowUp ==
    /\ phase = "Idle"
    /\ IF NoFollowUp(original)
       THEN phase' = "Done" /\ report' = original
       ELSE phase' = "FollowUp" /\ report' = report
    /\ nextIdx' = 1
    /\ results' = <<>>
    /\ UNCHANGED <<topic, env, config, use_rag, vectorOps, outcomes, runs,
                   chunking, uiVars, clock, genCalls, original, llm, plan,
                   planPath, tasks, batches, started, completed,
                   plannerCalls, writerCalls, error, searchStore,
                   reportStore>>

\* "result = await self.search_agent.run(question)" for the next question:
\* the call runs up to the provider call
FollowUpSearch ==
    /\ phase = "FollowUp"
    /\ tasks = <<>>
    /\ nextIdx <= Len(original.follow_up_questions)
    /\ tasks' = <<StartTask(NewTask(original.follow_up_questions[nextIdx]))>>
    /\ started' = started \cup {nextIdx}
    /\ UNCHANGED <<phase, topic, env, config, use_rag, vectorOps, outcomes,
                   runs, chunking, uiVars, clock, genCalls, original, llm,
                   plan, planPath, nextIdx, results, batches, completed,
                   plannerCalls, writerCalls, report, error, searchStore,
                   reportStore>>

\* the result is put in front of the list
PrependResult(all, result) == <<result>> \o all

\* "all_search_results.append(result)"
AppendResult(all, result) == Append(all, result)

\* the search returns and its result is appended
FollowUpSearchReturns ==
    /\ phase = "FollowUp"
    /\ tasks # <<>>
    /\ tasks[1].pc = "done"
    /\ results' = AppendResult(results, tasks[1].result)
    /\ nextIdx' = nextIdx + 1
    /\ tasks' = <<>>
    /\ UNCHANGED <<phase, topic, env, config, use_rag, vectorOps, outcomes,
                   runs, chunking, uiVars, clock, genCalls, original, llm,
                   plan, planPath, batches, started, completed, plannerCalls,
                   writerCalls, report, error, searchStore, reportStore>>

\* the loop is over: _generate_report(enhanced_topic, all_search_results)
\* awaits writer_agent.run(data)
FollowUpSynthesize ==
    /\ phase = "FollowUp"
    /\ tasks = <<>>
    /\ nextIdx > Len(original.follow_up_questions)
    /\ GenerateReport(enhanced_topic(original), results)
    /\ UNCHANGED <<topic, env, config, use_rag, outcomes, runs, chunking,
                   uiVars, clock, genCalls, original, llm, plan, planPath,
                   nextIdx, tasks, results, batches, started, completed,
                   plannerCalls, report, searchStore, reportStore>>

FollowUpNext ==
    \/ Tick
    \/ RunFollowUp
    \/ FollowUpSearch
    \/ \E t \in 1..Len(tasks) : ProviderReturns(t)
    \/ \E t \in 1..Len(tasks) : GeneratorReturns(t)
    \/ \E t \in 1..Len(tasks) : SleepReturns(t)
    \/ FollowUpSearchReturns
    \/ FollowUpSynthesize
    \/ WriterReturns

FollowUpSpec == FollowUpInit /\ [][FollowUpNext]_vars

(***************************************************************************)
(* Several calls of run, one after the other, on one ResearchManager.  The *)
(* external capabilities of a call are scripted: the generator answers the *)
(* JSON prompts with llm, the others behave as env says.  The variables    *)
(* that model locals of run keep their last value between the calls, so a  *)
(* call that read one before assigning it would show.                      *)
(***************************************************************************)
MaxRuns == 3

\* the generator's answer to the JSON prompts of a call: a plan of one query
\* or a plan of two, which keeps the batches of the calls short
RerunScripts(t) ==
    { Says(<<Json(Arr([n \in 1..len |-> LLMItem(t, n)]))>>) : len \in {1, 2} }

RerunEnvs ==
    { [provider |-> "hits", summary |-> "text", save |-> "ok",
       synth |-> "text", body |-> "text", write |-> "ok"],
      [provider |-> "raise", summary |-> "raise", save |-> "ok",
       synth |-> "raise", body |-> "raise", write |-> "ok"] }

RerunInit ==
    /\ phase = "Idle"
    /\ topic \in RunTopics
    /\ env \in RerunEnvs
    /\ llm \in RerunScripts(topic)
    /\ plan = NoPlan
    /\ planPath = "none"
    /\ nextIdx = 1
    /\ tasks = <<>>
    /\ results = <<>>
    /\ batches = <<>>
    /\ started = {}
    /\ completed = {}
    /\ plannerCalls = <<>>
    /\ writerCalls = <<>>
    /\ report = NoReport
    /\ error = "none"
    /\ searchStore = {}
    /\ reportStore = {}
    /\ clock = 0
    /\ genCalls = 0
    /\ original = NoReport
    /\ config = DefaultConfig
    /\ use_rag = UseRag(DefaultConfig)
    /\ vectorOps = <<>>
    /\ outcomes = NoOutcomes
    /\ runs = <<>>
    /\ chunking = NoFrame
    /\ NoUi

\* what the caller of run gave and got
RunRecord ==
    [topic |-> topic, env |-> env, llm |-> llm, report |-> report,
     error |-> error]

\* run has returned or raised; the caller keeps the outcome and, while it has
\* calls left, calls run on the same manager with its next topic
RunAgain ==
    /\ phase \in {"Done", "Failed"}
    /\ Len(runs) < MaxRuns
    /\ runs' = Append(runs, RunRecord)
    /\ IF Len(runs) + 1 < MaxRuns
       THEN /\ phase' = "Idle"
            /\ topic' \in RunTopics
            /\ env' \in RerunEnvs
            /\ llm' \in RerunScripts(topic')
       ELSE /\ phase' = "Over"
            /\ UNCHANGED <<topic, env, llm>>
    /\ report' = NoReport
    /\ error' = "none"
    /\ batches' = <<>>
    /\ started' = {}
    /\ completed' = {}
    /\ plannerCalls' = <<>>
    /\ writerCalls' = <<>>
    /\ genCalls' = 0
    /\ outcomes' = NoOutcomes
    /\ UNCHANGED <<config, use_rag, vectorOps, chunking, uiVars, clock,
                   original, plan, planPath, nextIdx, tasks, results,
                   searchStore, reportStore>>

RerunNext ==
    \/ Next
    \/ RunAgain

RerunSpec == RerunInit /\ [][RerunNext]_vars

(***************************************************************************)
(* run with a caller that may cancel it while a batch is in flight: the    *)
(* task that runs run is cancelled (asyncio.run does so on SIGINT) while   *)
(* it awaits asyncio.gather.                                               *)
(***************************************************************************)
InterruptInit ==
    /\ Init
    /\ topic # <<>>
    /\ env.save = "ok"

\* CancelledError reaches a child of gather: it is a BaseException, which
\* "except Exception" of SearchAgent.process and BaseAgent.run does not
\* catch, so a child that has not returned ends at the await it is at
CancelTask(task) ==
    IF task.pc = "done" THEN task ELSE [task EXCEPT !.pc = "cancelled"]

\* the caller is interrupted while run awaits gather: cancelling the
\* awaiting task cancels gather, gather cancels its children, and the
\* CancelledError leaves _execute_searches and run
Interrupt ==
    /\ phase = "Searching"
    /\ tasks # <<>>
    /\ tasks' = [t \in 1..Len(tasks) |-> CancelTask(tasks[t])]
    /\ phase' = "Interrupted"
    /\ error' = "CancelledError"
    /\ UNCHANGED <<topic, env, config, use_rag, vectorOps, outcomes, runs,
                   chunking, uiVars, clock, genCalls, original, llm, plan,
                   planPath, nextIdx, results, batches, started, completed,
                   plannerCalls, writerCalls, report, searchStore,
                   reportStore>>

InterruptNext ==
    \/ Next
    \/ Interrupt

InterruptSpec == InterruptInit /\ [][InterruptNext]_vars

(***************************************************************************)
(* Managers constructed with every combination of use_rag and model_type,  *)
(* entered through run or through run_follow_up_research.                  *)
(***************************************************************************)
RagConfigs ==
    { DefaultConfig,
      [model_provider |-> "given", use_rag |-> TRUE],
      [model_provider |-> "given", use_rag |-> FALSE, model_type |-> "ollama"],
      [model_provider |-> "given", model_type |-> "ollama"],
      [model_provider |-> "given", use_rag |-> TRUE, model_type |-> "openai"],
      [model_provider |-> "given", use_rag |-> TRUE, model_type |-> "ollama"] }

RagInit ==
    /\ phase = "Idle"
    /\ topic = <<"Ai">>
    /\ env \in RerunEnvs
    /\ llm \in RerunScripts(topic)
    /\ plan = NoPlan
    /\ planPath = "none"
    /\ nextIdx = 1
    /\ tasks = <<>>
    /\ results = <<>>
    /\ batches = <<>>
    /\ started = {}
    /\ completed = {}
    /\ plannerCalls = <<>>
    /\ writerCalls = <<>>
    /\ report = NoReport
    /\ error = "none"
    /\ searchStore = {}
    /\ reportStore = {}
    /\ clock = 0
    /\ genCalls = 0
    /\ original \in FollowUpReports
    /\ config \in RagConfigs
    /\ use_rag = UseRag(config)
    /\ vectorOps = ConstructOps(use_rag)
    /\ outcomes = NoOutcomes
    /\ runs = <<>>
    /\ chunking = NoFrame
    /\ NoUi

RagNext ==
    \/ Next
    \/ RunFollowUp
    \/ FollowUpSearch
    \/ FollowUpSearchReturns
    \/ FollowUpSynthesize

RagSpec == RagInit /\ [][RagNext]_vars

(***************************************************************************)
(* RAGProcessor._chunk_document, one loop iteration per step.  A document  *)
(* is a sequence of characters; indices and slices follow Python: they     *)
(* count from 0 and a negative one counts from the end.                    *)
(***************************************************************************)
MaxDocLen == 4
MaxChunkSize == 3
MaxChunks == 3

\* "range(end, max(start, end - 50), -1)"
SnapWindow == 50

Chars == {"a", ".", " "}

\* "document[i] in ['.', '!', '?', '\n']"
IsBreak(c) == c \in {".", "!", "?", "\n"}

\* str.isspace() of one character
IsSpace(c) == c \in {" ", "\n", "\t"}

Documents == UNION { [1..n -> Chars] : n \in 0..MaxDocLen }

\* max(a, b)
Max(a, b) == IF a > b THEN a ELSE b

\* document[i]
PyAt(doc, i) == IF i >= 0 THEN doc[i + 1] ELSE doc[Len(doc) + i + 1]

\* document[i] does not raise IndexError
PyInRange(doc, i) == -Len(doc) <= i /\ i < Len(doc)

\* document[a:b]
PySlice(doc, a, b) ==
    LET from == IF a < 0 THEN Max(Len(doc) + a, 0) ELSE Min(a, Len(doc))
        to == IF b < 0 THEN Max(Len(doc) + b, 0) ELSE Min(b, Len(doc))
    IN  SubSeq(doc, from + 1, to)

\* the test of the break search at index i
BreakAt(doc, i) ==
    /\ IsBreak(PyAt(doc, i))
    /\ (i + 1 = Len(doc) \/ IsSpace(PyAt(doc, i + 1)))

\* "for i in range(end, max(start, end - 50), -1)": the first index, from
\* end down, that holds a break followed by a space or by the end of the
\* document moves end behind it; an index outside the document raises
Snap(doc, start, end) ==
    LET range == (Max(start, end - SnapWindow) + 1)..end
        hits == {i \in range : PyInRange(doc, i) /\ BreakAt(doc, i)}
    IN  IF hits # {}
        THEN [exc |-> "none", end |-> 1 + CHOOSE i \in hits : \A j \in hits : j <= i]
        ELSE IF \E i \in range : ~PyInRange(doc, i)
        THEN [exc |-> "IndexError", end |-> end]
        ELSE [exc |-> "none", end |-> end]

\* one iteration of "while start < len(document)"
ChunkBody(f) ==
    LET len == Len(f.document)
        cut == Min(f.start + f.chunk_size, len)
        snapped == IF cut < len THEN Snap(f.document, f.start, cut)
                   ELSE [exc |-> "none", end |-> cut]
    IN  IF snapped.exc # "none"
        THEN [f EXCEPT !.pc = "raised"]
        ELSE [f EXCEPT !.chunks = Append(@, PySlice(f.document, f.start, snapped.end)),
                       !.prev = f.start,
                       !.start = snapped.end - f.chunk_overlap]

ChunkInit ==
    /\ Init
    /\ topic = <<>>
    /\ env = [provider |-> "raise", summary |-> "raise", save |-> "ok",
              synth |-> "any", body |-> "any", write |-> "any"]

\* _chunk_document(document, chunk_size, chunk_overlap) is called, with a
\* positive size and an overlap below it: "chunks = []; start = 0"
ChunkCall ==
    /\ chunking = NoFrame
    /\ \E document \in Documents, chunk_size \in 1..MaxChunkSize :
          \E chunk_overlap \in 0..(chunk_size - 1) :
              chunking' = [pc |-> "loop", document |-> document,
                           chunk_size |-> chunk_size,
                           chunk_overlap |-> chunk_overlap,
                           start |-> 0, prev |-> 0, chunks |-> <<>>]
    /\ UNCHANGED <<phase, topic, env, config, use_rag, vectorOps, outcomes,
                   runs, uiVars, clock, genCalls, original, llm, plan,
                   planPath, nextIdx, tasks, results, batches, started,
                   completed, plannerCalls, writerCalls, report, error,
                   searchStore, reportStore>>

\* the loop condition holds and the body runs once
ChunkIterate ==
    /\ chunking.pc = "loop"
    /\ chunking.start < Len(chunking.document)
    /\ Len(chunking.chunks) < MaxChunks
    /\ chunking' = ChunkBody(chunking)
    /\ UNCHANGED <<phase, topic, env, config, use_rag, vectorOps, outcomes,
                   runs, uiVars, clock, genCalls, original, llm, plan,
                   planPath, nextIdx, tasks, results, batches, started,
                   completed, plannerCalls, writerCalls, report, error,
                   searchStore, reportStore>>

\* the loop condition fails: "return chunks"
ChunkReturn ==
    /\ chunking.pc = "loop"
    /\ chunking.start >= Len(chunking.document)
    /\ chunking' = [chunking EXCEPT !.pc = "returned"]
    /\ UNCHANGED <<phase, topic, env, config, use_rag, vectorOps, outcomes,
                   runs, uiVars, clock, genCalls, original, llm, plan,
                   planPath, nextIdx, tasks, results, batches, started,
                   completed, plannerCalls, writerCalls, report, error,
                   searchStore, reportStore>>

ChunkNext ==
    \/ ChunkCall
    \/ ChunkIterate
    \/ ChunkReturn

ChunkSpec == ChunkInit /\ [][ChunkNext]_vars

(***************************************************************************)
(* The task registry of the web UI.  active_tasks and completed_tasks are  *)
(* the key sets of the two dicts; both dicts hold the one task dict that   *)
(* the handler created and the thread works on, which is threads[id].task  *)
(* for the id-th task id issued.  Handlers and threads interleave at every *)
(* dict operation.                                                         *)
(***************************************************************************)
MaxTasks == 2
MaxRequests == 1

\* the statement is left out
SkipCompleted(finished, task_id) == finished

\* "completed_tasks[task_id] = task"
StoreCompleted(finished, task_id) == finished \cup {task_id}

\* "del active_tasks[task_id]"
DelActive(active, task_id) == active \ {task_id}

UiInit ==
    /\ Init
    /\ topic = <<>>
    /\ env = [provider |-> "raise", summary |-> "raise", save |-> "ok",
              synth |-> "any", body |-> "any", write |-> "any"]

\* a handler stores a new task under a fresh id and starts its thread
NewUiTask(kind) ==
    /\ threads' = Append(threads, [kind |-> kind, pc |-> "spawned",
                                   task |-> [status |-> "starting"]])
    /\ active_tasks' = active_tasks \cup {Len(threads) + 1}
    /\ UNCHANGED <<completed_tasks, requests>>
    /\ UNCHANGED <<phase, topic, env, config, use_rag, vectorOps, outcomes,
                   runs, chunking, clock, genCalls, original, llm, plan,
                   planPath, nextIdx, tasks, results, batches, started,
                   completed, plannerCalls, writerCalls, report, error,
                   searchStore, reportStore>>

\* POST /api/research with a topic: start_research
start_research ==
    /\ Len(threads) < MaxTasks
    /\ NewUiTask("research")

\* POST /api/research/<task_id>/follow-up for a completed task:
\* start_follow_up_research
start_follow_up_research ==
    /\ Len(threads) < MaxTasks
    /\ \E task_id \in completed_tasks : threads[task_id].task.status = "completed"
    /\ NewUiTask("follow_up")

\* a step of the thread of a task changes the thread and the two dicts
ThreadStep(task_id, after, active, finished) ==
    /\ threads' = [threads EXCEPT ![task_id] = after]
    /\ active_tasks' = active
    /\ completed_tasks' = finished
    /\ UNCHANGED requests
    /\ UNCHANGED <<phase, topic, env, config, use_rag, vectorOps, outcomes,
                   runs, chunking, clock, genCalls, original, llm, plan,
                   planPath, nextIdx, tasks, results, batches, started,
                   completed, plannerCalls, writerCalls, report, error,
                   searchStore, reportStore>>

\* run_research_task / run_follow_up_task: task["status"] = "running"
ThreadRuns(task_id) ==
    /\ threads[task_id].pc = "spawned"
    /\ ThreadStep(task_id,
                  [threads[task_id] EXCEPT !.pc = "working",
                                           !.task.status = "running"],
                  active_tasks, completed_tasks)

\* the research of the thread ends: task["status"] = "completed" at the end
\* of the try block, or "failed" in the except block
ThreadSettles(task_id) ==
    /\ threads[task_id].pc = "working"
    /\ \E status \in {"completed", "failed"} :
          ThreadStep(task_id,
                     [threads[task_id] EXCEPT !.pc = "settled",
                                              !.task.status = status],
                     active_tasks, completed_tasks)

\* "completed_tasks[task_id] = task"
ThreadStores(task_id) ==
    /\ threads[task_id].pc = "settled"
    /\ ThreadStep(task_id, [threads[task_id] EXCEPT !.pc = "stored"],
                  active_tasks, StoreCompleted(completed_tasks, task_id))

\* "del active_tasks[task_id]", the last statement of the thread
ThreadDeletes(task_id) ==
    /\ threads[task_id].pc = "stored"
    /\ ThreadStep(task_id, [threads[task_id] EXCEPT !.pc = "ended"],
                  DelActive(active_tasks, task_id), completed_tasks)

\* a step of the handler of request r
RequestStep(r, after) ==
    /\ requests' = [requests EXCEPT ![r] = after]
    /\ UNCHANGED <<active_tasks, completed_tasks, threads>>
    /\ UNCHANGED <<phase, topic, env, config, use_rag, vectorOps, outcomes,
                   runs, chunking, clock, genCalls, original, llm, plan,
                   planPath, nextIdx, tasks, results, batches, started,
                   completed, plannerCalls, writerCalls, report, error,
                   searchStore, reportStore>>

NoResponse == [code |-> 0, body |-> "none"]

\* GET /api/research/<task_id> arrives, for an id that was issued or for
\* the id 0 that never is
StatusRequested ==
    /\ Len(requests) < MaxRequests
    /\ \E task_id \in 0..Len(threads) :
          requests' = Append(requests, [task_id |-> task_id, pc |-> "in_active",
                                       response |-> NoResponse])
    /\ UNCHANGED <<active_tasks, completed_tasks, threads>>
    /\ UNCHANGED <<phase, topic, env, config, use_rag, vectorOps, outcomes,
                   runs, chunking, clock, genCalls, original, llm, plan,
                   planPath, nextIdx, tasks, results, batches, started,
                   completed, plannerCalls, writerCalls, report, error,
                   searchStore, reportStore>>

\* get_research_status: "if task_id in active_tasks"
StatusChecksActive(r) ==
    /\ requests[r].pc = "in_active"
    /\ RequestStep(r, [requests[r] EXCEPT !.pc =
                          IF requests[r].task_id \in active_tasks
                          THEN "read_active" ELSE "in_completed"])

\* "return jsonify(active_tasks[task_id])": the key may be gone by now, and
\* the KeyError becomes the server's answer 500
StatusReadsActive(r) ==
    /\ requests[r].pc = "read_active"
    /\ RequestStep(r, [requests[r] EXCEPT !.pc = "answered", !.response =
                          IF requests[r].task_id \in active_tasks
                          THEN [code |-> 200,
                                body |-> threads[requests[r].task_id].task.status]
                          ELSE [code |-> 500, body |-> "KeyError"]])

\* "if task_id in completed_tasks: return jsonify(completed_tasks[task_id])"
\* and the final "Task not found"; no key ever leaves completed_tasks
StatusChecksCompleted(r) ==
    /\ requests[r].pc = "in_completed"
    /\ RequestStep(r, [requests[r] EXCEPT !.pc = "answered", !.response =
                          IF requests[r].task_id \in completed_tasks
                          THEN [code |-> 200,
                                body |-> threads[requests[r].task_id].task.status]
                          ELSE [code |-> 404, body |-> "Task not found"]])

UiNext ==
    \/ start_research
    \/ start_follow_up_research
    \/ \E task_id \in 1..Len(threads) : ThreadRuns(task_id)
    \/ \E task_id \in 1..Len(threads) : ThreadSettles(task_id)
    \/ \E task_id \in 1..Len(threads) : ThreadStores(task_id)
    \/ \E task_id \in 1..Len(threads) : ThreadDeletes(task_id)
    \/ StatusRequested
    \/ \E r \in 1..Len(requests) : StatusChecksActive(r)
    \/ \E r \in 1..Len(requests) : StatusReadsActive(r)
    \/ \E r \in 1..Len(requests) : StatusChecksCompleted(r)

UiSpec == UiInit /\ [][UiNext]_vars

(***************************************************************************)
(* Properties                                                              *)
(***************************************************************************)

\* C1: for every non-empty topic and every behaviour of the generator, the
\* provider and the file system, run never aborts with an error (it reaches
\* Done with a report).  Stated as the safety half: run never fails.
C1_RunNeverAborts == topic # <<>> => phase # "Failed"

\* the groups of a plan of n queries: 5, ..., 5 and the remainder
C2_Groups(n) ==
    [k \in 1..((n + 4) \div 5) |-> IF 5 * k <= n THEN 5 ELSE n - 5 * (k - 1)]

\* C2: a plan of N queries is searched in ceil(N/5) groups of sizes
\* 5,...,5,(N mod 5 or 5) taken in plan order, and no search of a group is
\* started before every search of the groups before it has completed.
C2_SequentialBatches ==
    planPath # "none" =>
        LET n == Len(plan.queries)
        IN  /\ Len(batches) <= Len(C2_Groups(n))
            /\ \A k \in 1..Len(batches) : batches[k] = C2_Groups(n)[k]
            /\ writerCalls # <<>> => batches = C2_Groups(n)
            /\ tasks # <<>> =>
                  /\ Len(tasks) = batches[Len(batches)]
                  /\ \A t \in 1..Len(tasks) :
                        tasks[t].query = plan.queries[5 * (Len(batches) - 1) + t].query
            /\ \A j \in started : \A i \in 1..n :
                  (i - 1) \div 5 < (j - 1) \div 5 => i \in completed

C2_Witness ==
    /\ batches = <<5, 5, 2>>
    /\ writerCalls # <<>>
    /\ completed = 1..12

\* C3: the list _execute_searches returns has one result per query, the
\* i-th being the result of the i-th query of the plan; the list built so
\* far is always a prefix of it.
C3_ResultsInPlanOrder ==
    planPath # "none" =>
        /\ Len(results) <= Len(plan.queries)
        /\ \A k \in 1..Len(results) : results[k].query = plan.queries[k].query
        /\ writerCalls # <<>> => Len(results) = Len(plan.queries)

C3_Witness ==
    /\ phase = "Synthesizing"
    /\ Len(results) = 12
    /\ \A k \in 1..12 : results[k].query = plan.queries[k].query
    /\ results[1].query # results[2].query

\* C4: at most 5 search calls are started and not yet completed, whatever
\* the size of the plan.
C4_AtMostFiveInFlight ==
    /\ Cardinality(started \ completed) <= 5
    /\ Cardinality(InFlight) <= 5

C4_Witness ==
    /\ Len(plan.queries) > 5
    /\ Cardinality(started \ completed) = 5
    /\ Cardinality(InFlight) = 5

C5_Rank(ph) ==
    CASE ph = "Idle" -> 0
      [] ph = "Planning" -> 1
      [] ph = "Searching" -> 2
      [] ph = "Synthesizing" -> 3
      [] OTHER -> 4

C5_Order ==
    /\ Len(plannerCalls) <= 1
    /\ phase # "Idle" => plannerCalls = <<topic>>
    /\ started # {} => /\ plannerCalls = <<topic>>
                       /\ planPath # "none"
                       /\ C5_Rank(phase) >= 2
    /\ phase \in {"Idle", "Planning"} => planPath = "none" /\ tasks = <<>>
    /\ phase \in {"Idle", "Planning", "Searching"} => writerCalls = <<>>
    /\ writerCalls # <<>> =>
          /\ writerCalls = <<[topic |-> topic, results |-> results]>>
          /\ Len(results) = Len(plan.queries)
          /\ started = 1..Len(plan.queries)
          /\ completed = started
          /\ tasks = <<>>
    /\ phase = "Synthesizing" => report = NoReport
    /\ phase = "Done" => /\ report # NoReport
                         /\ report.topic = writerCalls[1].topic
                         /\ error = "none"

\* C5: within one run the phases occur in the order Planning, Searching,
\* Synthesizing, Done and never go back; the Planner is invoked once with
\* the topic before any search starts, every search has completed before
\* the Synthesizer is invoked, once, with the topic and the full result
\* list, and its report is what run returns.
C5_PhaseOrder ==
    /\ [](C5_Order)
    /\ [][C5_Rank(phase') >= C5_Rank(phase)]_vars

C5_Witness ==
    /\ phase = "Done"
    /\ Len(results) = 12
    /\ Len(writerCalls) = 1

\* a response with a JSON array one of whose items lacks a field
C6_LacksField(response) ==
    \E k \in 1..Len(response.text) :
        /\ response.text[k].t = "json"
        /\ response.text[k].v.k = "array"
        /\ \E n \in 1..Len(response.text[k].v.items) :
              ~({"query", "reason"} \subseteq DOMAIN response.text[k].v.items[n])

\* a response without any JSON document in it
C6_NotJson(response) ==
    \A k \in 1..Len(response.text) : response.text[k].t # "json"

\* C6: PlanningAgent.process never raises: when the generator raises,
\* returns text that is not JSON or returns items lacking the query/reason
\* fields, it returns the plan of the template fallback.
C6_PlannerNeverRaises ==
    /\ phase # "Failed"
    /\ error = "none"
    /\ phase \notin {"Idle", "Planning"} =>
          /\ plan # NoPlan
          /\ plan.topic = topic
          /\ (llm = Raises \/ C6_NotJson(llm) \/ C6_LacksField(llm)) =>
                /\ planPath = "template"
                /\ plan.queries = _generate_search_queries(topic)

C6_Witness ==
    /\ phase = "Searching"
    /\ C6_LacksField(llm)
    /\ planPath = "template"
    /\ Len(plan.queries) = 10

\* C7: for every non-empty topic and every generator response the plan the
\* Planner returns has at least one query.
C7_PlanHasQuery ==
    (topic # <<>> /\ planPath # "none") => Len(plan.queries) >= 1

C8_Suffixes ==
    << <<"overview">>, <<"definition">>, <<"history">>, <<"examples">>,
       <<"advantages", " ", "and", " ", "disadvantages">>,
       <<"latest", " ", "developments">>, <<"future", " ", "trends">>,
       <<"applications">>, <<"challenges">>, <<"statistics">> >>

\* C8: on the fallback path the queries are the ten pairs
\* ("{topic} {suffix}", reason) for the ten suffixes in their order: ten
\* queries, pairwise distinct, each containing the topic, the reasons not
\* depending on the topic, the first being ("{topic} overview", "To get a
\* general overview of the topic").
C8_FallbackQueries ==
    planPath = "template" =>
        /\ Len(plan.queries) = 10
        /\ \A n \in 1..10 :
              /\ plan.queries[n].query = topic \o <<" ">> \o C8_Suffixes[n]
              /\ Contains(plan.queries[n].query, topic)
              /\ \A other \in Topics :
                    plan.queries[n].reason = _generate_search_queries(other)[n].reason
        /\ \A n, m \in 1..10 :
              n # m => plan.queries[n].query # plan.queries[m].query
        /\ plan.queries[1] =
              [query |-> topic \o <<" ", "overview">>,
               reason |-> <<"To get a general overview of the topic">>]

C8_Witness ==
    /\ planPath = "template"
    /\ topic = <<"Quantum", " ", "computing">>
    /\ plan.queries[1].query = <<"Quantum", " ", "computing", " ", "overview">>
    /\ plan.queries[10].query = <<"Quantum", " ", "computing", " ", "statistics">>

\* C9: for every query and every behaviour of the provider and the
\* generator, the SearchResult SearchAgent.process returns has a non-empty
\* summary.
C9_SummaryNonEmpty ==
    \A t \in 1..Len(tasks) :
        tasks[t].pc = "done" => tasks[t].result.summary # <<>>

\* C10: for the same query, a provider that raises and a provider that
\* returns an error-tagged response with zero results lead to the same
\* SearchResult.
C10_FailureShapesAgree ==
    (/\ Len(tasks) = 2
     /\ tasks[1].pc = "done" /\ tasks[1].provided = "raise"
     /\ tasks[2].pc = "done" /\ tasks[2].provided = "empty")
    => tasks[1].result = tasks[2].result

\* C11: every call of SearchAgent.process attempts to persist its record
\* exactly once before it returns, on the provider path and on the simulated
\* path alike; a failed attempt raises nothing, and the SearchResult returned
\* is the one a call with a successful attempt returns.
C11_OnePersistenceAttempt ==
    /\ error = "none"
    /\ \A t \in 1..Len(tasks) :
          IF tasks[t].pc = "done"
          THEN /\ tasks[t].saves = 1
               /\ tasks[t].saved \in SaveOutcomes
               /\ tasks[t].result.query = tasks[t].query
          ELSE tasks[t].saves = 0 /\ tasks[t].saved = "none"
    /\ \A t, u \in 1..Len(tasks) :
          (/\ tasks[t].pc = "done" /\ tasks[u].pc = "done"
           /\ tasks[t].query = tasks[u].query
           /\ tasks[t].provided = tasks[u].provided
           /\ tasks[t].generated = tasks[u].generated)
          => tasks[t].result = tasks[u].result

\* both paths have returned, the simulated one after a failed write: its
\* record is in no file, the other call's record is
C11_Witness ==
    /\ Len(tasks) = 2
    /\ tasks[1].pc = "done" /\ tasks[1].provided = "raise"
    /\ tasks[1].saved = "fail"
    /\ tasks[2].pc = "done" /\ tasks[2].provided = "hits"
    /\ tasks[2].saved = "ok"
    /\ \A a \in searchStore : a.content # tasks[1].result
    /\ \E a \in searchStore : a.content = tasks[2].result

\* C12: no two persistence writes target the same file: no file of the
\* search-result store or of the report store is written a second time.
C12_DistinctFiles ==
    /\ \A a \in searchStore : a.writes = 1
    /\ \A a \in reportStore : a.writes = 1

\* the single call of WriterAgent.process has returned or raised
C13_Returned == Len(writerCalls) = 1 /\ phase \in {"Done", "Failed"}

C13_Empty(data, key) == key \notin DOMAIN data \/ data[key] = <<>>

C13_Invalid(data) == C13_Empty(data, "topic") \/ C13_Empty(data, "results")

\* C13: WriterAgent.process raises the invalid-input error (ValueError) when
\* the topic is empty or missing and when the results are empty or missing,
\* and then it has called the generator not once and written no report.
C13_InvalidInputRejected ==
    (C13_Returned /\ C13_Invalid(writerCalls[1]))
    => /\ phase = "Failed"
       /\ error = "ValueError"
       /\ report = NoReport
       /\ genCalls = 0
       /\ reportStore = {}

\* a call with a topic and without the results key has raised
C13_Witness ==
    /\ C13_Returned
    /\ "results" \notin DOMAIN writerCalls[1]
    /\ ~C13_Empty(writerCalls[1], "topic")
    /\ error = "ValueError"

\* C14: with a non-empty topic and non-empty results, whatever the generator
\* does (raises, answers without JSON, with a short array, with JSON of the
\* wrong shape), process returns a ResearchReport; only a failed report
\* write is left aside here.
C14_GeneratorFailureRecovered ==
    (C13_Returned /\ ~C13_Invalid(writerCalls[1]) /\ error # "OSError")
    => /\ phase = "Done"
       /\ error = "none"
       /\ report.topic = writerCalls[1].topic

\* the JSON documents in the generator's answer to the question prompt
C15_Documents(response) ==
    IF response.kind # "text" THEN {}
    ELSE {response.text[k].v : k \in {j \in 1..Len(response.text) :
                                         response.text[j].t = "json"}}

\* an array of at least three strings
C15_IsQuestionList(v) ==
    /\ v.k = "array"
    /\ Len(v.items) >= 3
    /\ \A n \in 1..Len(v.items) : "str" \in DOMAIN v.items[n]

\* C15: for a non-empty topic and non-empty results the report returned has
\* at least one follow-up question: the generator's list when its answer
\* parses to at least three questions, and in every other case the ten
\* template questions for the topic.
C15_FollowUpQuestions ==
    (C13_Returned /\ ~C13_Invalid(writerCalls[1]) /\ error # "OSError")
    => /\ phase = "Done"
       /\ Len(report.follow_up_questions) >= 1
       /\ IF \E v \in C15_Documents(llm) : C15_IsQuestionList(v)
          THEN \E v \in C15_Documents(llm) :
                  /\ Len(report.follow_up_questions) = Len(v.items)
                  /\ \A n \in 1..Len(v.items) :
                        report.follow_up_questions[n] = v.items[n].str
          ELSE /\ Len(report.follow_up_questions) = 10
               /\ report.follow_up_questions
                     = _generate_follow_up_questions(writerCalls[1].topic)

\* C16: a call of WriterAgent.process that returns a report has written the
\* content of that report to the report store exactly once, whichever of the
\* generator and the templates produced summary, questions and body.
C16_ReportWrittenOnce ==
    (Len(writerCalls) = 1 /\ phase = "Done")
    => /\ Cardinality(reportStore) = 1
       /\ \A a \in reportStore : a.content = report.content /\ a.writes = 1

\* a report with a template summary, template questions and a generated
\* body has been returned
C16_Witness ==
    /\ Len(writerCalls) = 1 /\ phase = "Done"
    /\ report.summary[1] = "This report provides an overview of "
    /\ Len(report.follow_up_questions) = 10
    /\ report.content[1] = "# Generated report on "
    /\ reportStore # {}

\* C17: a failure to write the report artifact does not fail
\* WriterAgent.process: no call on valid input ends with the error of the
\* write.
C17_WriteFailureTolerated ==
    (C13_Returned /\ ~C13_Invalid(writerCalls[1]))
    => error # "OSError"

\* the ten categories in the order the claim gives
C18_Order ==
    << <<"overview">>, <<"definition">>, <<"history">>, <<"examples">>,
       <<"advantages", " ", "and", " ", "disadvantages">>,
       <<"latest", " ", "developments">>, <<"future", " ", "trends">>,
       <<"applications">>, <<"challenges">>, <<"statistics">> >>

\* the categories whose name occurs in the lower-cased query
C18_Matches(query) ==
    {c \in 1..Len(C18_Order) : Contains(Lower(query), C18_Order[c])}

\* the returned report has the body of the deterministic assembler
C18_Assembled ==
    /\ Len(writerCalls) = 1 /\ phase = "Done"
    /\ report.content[1] = "# Research Report: "

\* the part of the body between the Findings and the Conclusion headings
C18_Findings ==
    SubSeq(report.content, IndexOf(report.content, {"## Findings"}) + 1,
           IndexOf(report.content, {"## Conclusion"}) - 1)

\* the positions of the findings at which the text occurs
C18_Places(text) ==
    {k \in 1..Len(C18_Findings) :
        /\ k + Len(text) - 1 <= Len(C18_Findings)
        /\ SubSeq(C18_Findings, k, k + Len(text) - 1) = text}

\* the section heading in force at position k of the findings
C18_HeadingAt(k) ==
    LET heads == {j \in 1..k : C18_Findings[j] = "### "}
        last == CHOOSE j \in heads : \A i \in heads : i <= j
    IN  IF heads = {} THEN <<>>
        ELSE SubSeq(C18_Findings, last + 1,
                    IndexFrom(C18_Findings, {"\n"}, last) - 1)

\* C18: in the body of the deterministic assembler every result stands in at
\* most one section, the first category of the fixed order whose name occurs
\* in its lower-cased query; a result matching no category stands in no
\* section, and the summary still counts every result.
C18_FirstCategoryWins ==
    C18_Assembled
    => LET res == writerCalls[1].results
       IN  /\ \A n \in 1..Len(res) :
                 LET places == C18_Places(res[n].summary)
                     hit == C18_Matches(res[n].query)
                 IN  IF hit = {} THEN places = {}
                     ELSE /\ Cardinality(places) = 1
                          /\ \A k \in places, c \in hit :
                                (\A d \in hit : c <= d)
                                => C18_HeadingAt(k) = Title(C18_Order[c])
           /\ Contains(report.content,
                       <<" based on ", ToString(Len(res)), " search queries. ">>)

\* a result naming two categories and a result naming none were assembled
C18_Witness ==
    /\ C18_Assembled
    /\ \E n \in 1..Len(writerCalls[1].results) :
          Cardinality(C18_Matches(writerCalls[1].results[n].query)) = 2
    /\ \E n \in 1..Len(writerCalls[1].results) :
          C18_Matches(writerCalls[1].results[n].query) = {}

C20_NoQuestionsNoWork ==
    (original.follow_up_questions = <<>> /\ phase # "Idle")
    => /\ phase = "Done"
       /\ error = "none"
       /\ report = original
       /\ started = {} /\ tasks = <<>> /\ results = <<>>
       /\ genCalls = 0
       /\ writerCalls = <<>>
       /\ searchStore = {} /\ reportStore = {}

\* the call on a report without questions has returned
C20_Witness ==
    /\ original.follow_up_questions = <<>>
    /\ original.topic = <<"Ai">>
    /\ phase = "Done"
    /\ report = original

\* the searches of the follow-up questions 1..n have been issued
C21_Issued(n) == started = 1..n

\* what holds in every state of a follow-up call with questions
C21_State ==
    LET questions == original.follow_up_questions
    IN  /\ plannerCalls = <<>>
        /\ Len(tasks) <= 1
        /\ Cardinality(InFlight) <= 1
        /\ \E n \in 0..Len(questions) : C21_Issued(n)
        /\ completed \subseteq started
        /\ Cardinality(started) - Cardinality(completed) <= 1
        /\ \A t \in 1..Len(tasks) :
              tasks[t].query = questions[Cardinality(started)]
        /\ Len(writerCalls) <= 1
        /\ writerCalls # <<>> =>
              LET data == writerCalls[1]
              IN  /\ completed = 1..Len(questions)
                  /\ data.topic = original.topic
                        \o <<" ", "(", "with", " ", "follow", "-", "up", " ",
                              "research", ")">>
                  /\ Len(data.results) = Len(questions)
                  /\ \A k \in 1..Len(questions) :
                        data.results[k].query = questions[k]
        /\ phase = "Done" =>
              /\ Len(writerCalls) = 1
              /\ report # original
              /\ report.topic = writerCalls[1].topic

\* what holds of every step: a search is issued only when none is in
\* flight, for the next question; the input report is never changed
C21_Step ==
    /\ original' = original
    /\ started' # started =>
          /\ InFlight = {}
          /\ started' = started \cup {Cardinality(started) + 1}
          /\ writerCalls = <<>>

C22_RunsIndependent ==
    ~use_rag =>
        \A i, j \in 1..Len(runs) :
            (/\ runs[i].topic = runs[j].topic
             /\ runs[i].env = runs[j].env
             /\ runs[i].llm = runs[j].llm)
            => /\ runs[i].report = runs[j].report
               /\ runs[i].error = runs[j].error

\* the third run returned a report for the inputs of the first, after a
\* second run on other inputs that returned another report
C22_Witness ==
    /\ Len(runs) = 3
    /\ runs[1].topic = runs[3].topic
    /\ runs[1].env = runs[3].env
    /\ runs[1].llm = runs[3].llm
    /\ runs[1].report # NoReport
    /\ Len(runs[1].report.content) > 0
    /\ runs[2].report # NoReport
    /\ runs[2].report # runs[1].report

\* C23: when the caller is interrupted while a batch of searches is in
\* flight, the searches of the batch that had started run to completion, no
\* search of a later batch is started, the Synthesizer is not invoked and
\* the interrupt reaches the caller.
C23_InterruptStopsAfterBatch ==
    phase = "Interrupted" =>
        /\ \A t \in 1..Len(tasks) :
              PlanIndex(t) \in started => tasks[t].pc = "done"
        /\ \A k \in started : k < nextIdx + Len(tasks)
        /\ writerCalls = <<>>
        /\ error = "CancelledError"

\* the manager was asked for RAG with a local model
C24_Requested ==
    /\ DataGet(config, "use_rag", FALSE)
    /\ DataGet(config, "model_type", "openai") = "ollama"

\* C24: RAG is off by default and active only for a manager constructed with
\* use_rag set and model type ollama; while it is inactive, run and
\* run_follow_up_research make no vector store operation and hand the
\* Synthesizer no RAG context.
C24_RagOffUnlessRequested ==
    /\ use_rag <=> C24_Requested
    /\ config = DefaultConfig => ~use_rag
    /\ ~use_rag =>
          /\ vectorOps = <<>>
          /\ \A c \in 1..Len(writerCalls) :
                "rag_context" \notin DOMAIN writerCalls[c]
          /\ error # "AttributeError"

\* a manager constructed with use_rag set but the default model type has
\* returned a report
C24_Witness ==
    /\ DataGet(config, "use_rag", FALSE)
    /\ ~C24_Requested
    /\ phase = "Done"
    /\ Len(writerCalls) = 1
    /\ Len(writerCalls[1].results) > 0

\* C25: with RAG enabled, a run over a non-empty list of results completes
\* and, in this order, adds every result with content to the vector store
\* tagged with title, url, topic and query, queries the store once with the
\* topic and invokes the Synthesizer with the context; nothing is deleted
\* or updated.
C25_RagPipeline ==
    (use_rag /\ results # <<>> /\ phase \in {"Synthesizing", "Done", "Failed"})
    => /\ error # "AttributeError"
       /\ Len(writerCalls) = 1
       /\ "rag_context" \in DOMAIN writerCalls[1]
       /\ \E n \in 1..Len(vectorOps) :
             /\ vectorOps[n] = [op |-> "query", text |-> writerCalls[1].topic]
             /\ \A k \in 2..(n - 1) : vectorOps[k].op = "add"
             /\ n = Len(vectorOps)
       /\ \A n \in 1..Len(vectorOps) :
             vectorOps[n].op \notin {"delete", "update"}

\* C26: for every document longer than chunk_size and every overlap with
\* 0 <= chunk_overlap < chunk_size, _chunk_document returns more than one
\* chunk and no chunk, snapped to a sentence end or not, is longer than
\* chunk_size.
C26_ChunksBounded ==
    (/\ chunking.pc = "returned"
     /\ Len(chunking.document) > chunking.chunk_size)
    => /\ Len(chunking.chunks) > 1
       /\ \A k \in 1..Len(chunking.chunks) :
             Len(chunking.chunks[k]) <= chunking.chunk_size

\* C28: _chunk_document terminates for every document and every overlap
\* with 0 < chunk_overlap < chunk_size: start grows in every iteration, the
\* one whose chunk ends at the end of the document and the snapped ones
\* included, so the loop runs at most once per character.
C28_StartIncreases ==
    (/\ chunking.pc # "none"
     /\ chunking.chunk_overlap > 0
     /\ chunking.chunks # <<>>)
    => /\ chunking.start > chunking.prev
       /\ Len(chunking.chunks) <= Len(chunking.document)

\* the parts of the returned report are the generator's where its call
\* succeeded and the deterministic fallback's where it failed
C27_PartsBySubTask ==
    /\ report.summary[1] = IF outcomes.summarised = "text"
                           THEN "Generated synthesis about "
                           ELSE "This report provides an overview of "
    /\ report.content[1] = IF outcomes.bodied = "text"
                           THEN "# Generated report on "
                           ELSE "# Research Report: "
    /\ IF \E v \in C15_Documents(outcomes.questioned) : C15_IsQuestionList(v)
       THEN \E v \in C15_Documents(outcomes.questioned) :
               report.follow_up_questions
                   = [n \in 1..Len(v.items) |-> v.items[n].str]
       ELSE report.follow_up_questions
                = _generate_follow_up_questions(report.topic)

\* C27: the three sub-tasks of the Synthesizer fall back independently: for
\* each of the eight combinations of success and failure of the summary,
\* question and body calls, a report is returned in which exactly the failed
\* sub-tasks show their fallback and the others the generator's output; no
\* failure of one discards the output of another.
C27_IndependentFallbacks ==
    (C13_Returned /\ ~C13_Invalid(writerCalls[1]) /\ outcomes.saved = "ok")
    => /\ phase = "Done"
       /\ C27_PartsBySubTask

\* the lines of the body after the heading of the follow-up section
C30_Rendered ==
    SubSeq(report.content,
           IndexOf(report.content, {"## Follow-up Questions"}) + 3,
           Len(report.content))

\* C30: in every report returned by WriterAgent.process whose body is the
\* deterministic assembler's, the questions listed in the follow-up section
\* of the body are the report's follow_up_questions, also when the questions
\* are the generator's and only the body call failed.
C30_RenderedQuestionsMatch ==
    C18_Assembled =>
        C30_Rendered
            = Flatten([n \in 1..Len(report.follow_up_questions) |->
                          <<"- ">> \o report.follow_up_questions[n] \o <<"\n">>])

\* what holds of the registry in every state
C29_State ==
    /\ \A task_id \in 1..Len(threads) :
          task_id \in active_tasks \cup completed_tasks
    /\ \A task_id \in completed_tasks :
          threads[task_id].task.status \in {"completed", "failed"}
    /\ \A r \in 1..Len(requests) :
          requests[r].task_id # 0
          => requests[r].response.body # "Task not found"

\* what holds of every step: a task in completed_tasks stays there and
\* keeps its status
C29_Step ==
    \A task_id \in completed_tasks :
        /\ task_id \in completed_tasks'
        /\ threads'[task_id].task.status = threads[task_id].task.status

\* C29: under every interleaving of the request handlers with the task
\* threads, a task id issued by the web UI is always in active_tasks or in
\* completed_tasks, so that no status query for it answers "Task not
\* found"; a task enters completed_tasks only with status completed or
\* failed, and from then on its status does not change.
C29_RegistryConsistent == []C29_State /\ [][C29_Step]_vars

\* both tasks, one completed and one failed, have left active_tasks, and a
\* status query for the failed one was answered from completed_tasks
C29_Witness ==
    /\ active_tasks = {}
    /\ completed_tasks = {1, 2}
    /\ threads[1].task.status # threads[2].task.status
    /\ \E r \in 1..Len(requests) :
          /\ requests[r].task_id # 0
          /\ requests[r].response.code = 200
          /\ requests[r].response.body = "failed"

====
